---- MODULE Spec2Model ----
(***************************************************************************)
(* FinDash: the summary aggregator (app/api/[[...route]]/summary.ts and    *)
(* lib/utils.ts), the categories, transactions and accounts routers, the   *)
(* CSV import card and the optimistic mutations of the query cache, over   *)
(* the relational schema of src/db/schema.ts.                              *)
(*                                                                         *)
(* Conventions of the model                                                *)
(*  - a nullable value is <<>> (SQL NULL / JS null or undefined) or <<v>>;  *)
(*  - an instant is an integer number of ticks, TicksPerDay ticks to the   *)
(*    calendar day; a calendar date ("yyyy-MM-dd") is an integer day;      *)
(*  - a JS number that results from a division is an exact rational        *)
(*    [kind |-> "num", n, d] or one of NaN, Infinity, -Infinity;           *)
(*  - a table is a set of rows, unique by id; the email column, which no  *)
(*    handler writes, is left out;                                         *)
(*  - createId() returns the next unused id: idCounter counts the ids      *)
(*    handed out so far;                                                   *)
(*  - accounts, categories, transactions and idCounter are the database,   *)
(*    request and response the call the server is answering, importer the  *)
(*    state of the CSV import card and cache the client's query cache.     *)
(***************************************************************************)
EXTENDS Integers, Sequences, FiniteSets, TLC

VARIABLES accounts, categories, transactions, idCounter, request, response,
          importer, cache, sessions

vars == <<accounts, categories, transactions, idCounter, request, response,
          importer, cache, sessions>>

\* the state of the browsers: the import card, the query cache and the calls
\* of the concurrent sessions
client == <<importer, cache, sessions>>

----------------------------------------------------------------------------
(* Bounds *)

\* ticks in a calendar day: tick 0 is midnight
TicksPerDay == 2
\* transaction instants of the summary specification are 0..MaxInstant
MaxInstant == 3
\* rows of the transactions table in the summary specification
MaxTx == 2
\* explicit from/to dates of the period specification are -MaxWindow..0
MaxWindow == 2
\* rows of the transactions table in the two families of the breakdown
\* specification
MaxRankingTx == 5
MaxMixedTx == 4
\* category ids createId() hands out in the categories specification
MaxCategoryIds == 3
MaxTransactionIds == 2
MaxBulkRows == 2
MaxAccountIds == 2
MaxImportRows == 2
\* optimistic mutations started in the optimistic specification
MaxMutations == 2
\* concurrent sessions, and calls of each, in the sessions specification
MaxSessions == 2
MaxCalls == 2

----------------------------------------------------------------------------
(* Values *)

Null == <<>>
Some(v) == <<v>>
IsNull(m) == m = <<>>
Val(m) == m[1]

UserA == "userA"
UserB == "userB"
\* auth.userId of a request without a session
NoUser == ""
Users == {UserA, UserB}

\* a test that lets the absent string through
TruthyAlways(s) == TRUE

\* JS truthiness of an optional string / ToNumber of a nullable number
Truthy(s) == s # ""
ToNumber(m) == IF IsNull(m) THEN 0 ELSE Val(m)

Abs(x) == IF x < 0 THEN -x ELSE x

RECURSIVE Gcd(_, _)
Gcd(a, b) == IF b = 0 THEN a ELSE Gcd(b, a % b)

NaN == [kind |-> "NaN", n |-> 0, d |-> 0]
PosInfinity == [kind |-> "Infinity", n |-> 0, d |-> 0]
NegInfinity == [kind |-> "-Infinity", n |-> 0, d |-> 0]
\* the number n/d, d # 0, in lowest terms with a positive denominator
Rat(n, d) ==
  LET g == Gcd(Abs(n), Abs(d))
      s == IF d < 0 THEN -1 ELSE 1
  IN [kind |-> "num", n |-> (s * n) \div g, d |-> (s * d) \div g]
\* JS division of two integers
JsDiv(n, d) ==
  IF d # 0 THEN Rat(n, d)
  ELSE IF n = 0 THEN NaN
  ELSE IF n > 0 THEN PosInfinity ELSE NegInfinity

----------------------------------------------------------------------------
(* date-fns *)

\* parse(s, "yyyy-MM-dd", new Date()): midnight of the calendar date
Parse(day) == day * TicksPerDay
\* format(date, "yyyy-MM-dd"): the calendar date of an instant
Format(instant) == instant \div TicksPerDay
SubDays(instant, n) == instant - n * TicksPerDay
AddDays(instant, n) == instant + n * TicksPerDay
\* differenceInDays(l, r): full days between, truncated towards zero
DifferenceInDays(l, r) ==
  IF l >= r THEN (l - r) \div TicksPerDay ELSE -((r - l) \div TicksPerDay)

----------------------------------------------------------------------------
(* SQL aggregates *)

RECURSIVE SumRows(_, _)
SumRows(rows, f) ==
  IF rows = {} THEN 0
  ELSE LET r == CHOOSE x \in rows : TRUE IN f[r] + SumRows(rows \ {r}, f)

\* SUM(expr) is NULL over no rows; mapWith(Number) leaves NULL as null
SqlSum(rows, f) == IF rows = {} THEN Null ELSE Some(SumRows(rows, f))

----------------------------------------------------------------------------
(* lib/utils.ts *)

\* the change taken relative to the current value
calculatePercentageChangeOfCurrent(current, previous) ==
  IF previous = Some(0)
  THEN IF current = Some(0) THEN Rat(0, 1) ELSE Rat(100, 1)
  ELSE JsDiv((ToNumber(current) - ToNumber(previous)) * 100, ToNumber(current))

calculatePercentageChange(current, previous) ==
  IF previous = Some(0)
  THEN IF current = Some(0) THEN Rat(0, 1) ELSE Rat(100, 1)
  ELSE JsDiv((ToNumber(current) - ToNumber(previous)) * 100, ToNumber(previous))

\* the first element of activeDays whose formatted date is dateString
FindDay(activeDays, dateString) ==
  LET hits == {i \in 1..Len(activeDays) : Format(activeDays[i].date) = dateString}
  IN IF hits = {} THEN Null
     ELSE Some(activeDays[CHOOSE i \in hits : \A j \in hits : i <= j])

\* the loop bound without the day of endDate
fillMissingDaysShort(activeDays, startDate, endDate) ==
  IF Len(activeDays) = 0 THEN <<>>
  ELSE LET numDays == DifferenceInDays(endDate, startDate)
       IN [i \in 1..numDays |->
            LET dateString == Format(AddDays(startDate, i - 1))
                found == FindDay(activeDays, dateString)
            IN IF ~IsNull(found)
               THEN [date |-> dateString, income |-> Val(found).income,
                     expenses |-> Val(found).expenses]
               ELSE [date |-> dateString, income |-> 0, expenses |-> 0]]

fillMissingDays(activeDays, startDate, endDate) ==
  IF Len(activeDays) = 0 THEN <<>>
  ELSE LET numDays == DifferenceInDays(endDate, startDate) + 1
       IN [i \in 1..numDays |->
            LET dateString == Format(AddDays(startDate, i - 1))
                found == FindDay(activeDays, dateString)
            IN IF ~IsNull(found)
               THEN [date |-> dateString, income |-> Val(found).income,
                     expenses |-> Val(found).expenses]
               ELSE [date |-> dateString, income |-> 0, expenses |-> 0]]

----------------------------------------------------------------------------
(* summary.ts *)

DefaultDays == 30
TopLimit == 4

\* the WHERE without the ownership condition of the join
FinancialWhereAnyOwner(txs, accts, userId, accountId, startDate, endDate) ==
  {t \in txs : \E a \in accts :
      /\ t.accountId = a.id
      /\ (Truthy(accountId) => t.accountId = accountId)
      /\ t.date >= startDate
      /\ t.date <= endDate}

\* WHERE of fetchFinancialData over transactions INNER JOIN accounts
FinancialWhere(txs, accts, userId, accountId, startDate, endDate) ==
  {t \in txs : \E a \in accts :
      /\ t.accountId = a.id
      /\ (Truthy(accountId) => t.accountId = accountId)
      /\ a.userId = userId
      /\ t.date >= startDate
      /\ t.date <= endDate}

fetchFinancialData(txs, accts, userId, accountId, startDate, endDate) ==
  LET rows == FinancialWhere(txs, accts, userId, accountId, startDate, endDate)
  IN [income |-> SqlSum(rows, [t \in rows |-> IF t.amount >= 0 THEN t.amount ELSE 0]),
      expenses |-> SqlSum(rows, [t \in rows |-> IF t.amount < 0 THEN t.amount ELSE 0]),
      remaining |-> SqlSum(rows, [t \in rows |-> t.amount])]

\* WHERE of the days query
DaysWhere(txs, accts, userId, accountId, startDate, endDate) ==
  {t \in txs : \E a \in accts :
      /\ t.accountId = a.id
      /\ (Truthy(accountId) => t.accountId = accountId)
      /\ a.userId = userId
      /\ t.date >= startDate
      /\ t.date <= endDate}

\* GROUP BY transactions.date ORDER BY transactions.date
RECURSIVE DaysGrouped(_, _)
DaysGrouped(rows, dates) ==
  IF dates = {} THEN <<>>
  ELSE LET d == CHOOSE x \in dates : \A y \in dates : x <= y
           grp == {t \in rows : t.date = d}
       IN <<[date |-> d,
             income |-> SumRows(grp, [t \in grp |-> IF t.amount >= 0 THEN t.amount ELSE 0]),
             expenses |-> SumRows(grp, [t \in grp |-> IF t.amount < 0 THEN Abs(t.amount) ELSE 0])]>>
          \o DaysGrouped(rows, dates \ {d})

DaysQuery(txs, accts, userId, accountId, startDate, endDate) ==
  LET rows == DaysWhere(txs, accts, userId, accountId, startDate, endDate)
  IN DaysGrouped(rows, {t.date : t \in rows})

\* categories.name of the row LEFT JOINed to a transaction
JoinedCategoryName(cats, t) ==
  IF IsNull(t.categoryId) \/ ~(\E c \in cats : c.id = Val(t.categoryId)) THEN Null
  ELSE Some((CHOOSE c \in cats : c.id = Val(t.categoryId)).name)

\* the WHERE without the restriction to expenses
CategoriesWhereAnyAmount(txs, accts, userId, accountId, startDate, endDate) ==
  {t \in txs : \E a \in accts :
      /\ t.accountId = a.id
      /\ (Truthy(accountId) => t.accountId = accountId)
      /\ a.userId = userId
      /\ t.date >= startDate
      /\ t.date <= endDate}

\* WHERE of the topCategories query
CategoriesWhere(txs, accts, userId, accountId, startDate, endDate) ==
  {t \in txs : \E a \in accts :
      /\ t.accountId = a.id
      /\ (Truthy(accountId) => t.accountId = accountId)
      /\ a.userId = userId
      /\ t.date >= startDate
      /\ t.date <= endDate
      /\ t.amount < 0}

\* SUM(ABS(amount)) of the group of a categories.name
GroupTotal(cats, rows, key) ==
  LET grp == {t \in rows : JoinedCategoryName(cats, t) = key}
  IN SumRows(grp, [t \in grp |-> Abs(t.amount)])

\* COALESCE(categories.name, 'Uncategorized')
Coalesce(key) == IF IsNull(key) THEN "Uncategorized" ELSE Val(key)

\* ORDER BY SUM(ABS(amount)) DESC: every order of the groups that is
\* descending by total (the order among equal totals is the engine's)
RECURSIVE OrderedGroups(_, _)
OrderedGroups(total, keys) ==
  IF keys = {} THEN {<<>>}
  ELSE LET top == {k \in keys : \A j \in keys : total[k] >= total[j]}
       IN UNION {{<<k>> \o rest : rest \in OrderedGroups(total, keys \ {k})} : k \in top}

\* a limit that lets one more row through
LimitOneMore(s, n) == SubSeq(s, 1, IF Len(s) < n + 1 THEN Len(s) ELSE n + 1)

\* LIMIT n
Limit(s, n) == SubSeq(s, 1, IF Len(s) < n THEN Len(s) ELSE n)

\* the possible results of the topCategories query
TopCategoriesQuery(txs, accts, cats, userId, accountId, startDate, endDate) ==
  LET rows == CategoriesWhere(txs, accts, userId, accountId, startDate, endDate)
      keys == {JoinedCategoryName(cats, t) : t \in rows}
      total == [k \in keys |-> GroupTotal(cats, rows, k)]
  IN {[i \in 1..Len(Limit(s, TopLimit)) |-> [name |-> Coalesce(s[i]), value |-> total[s[i]]]] :
      s \in OrderedGroups(total, keys)}

\* the effective window and the previous one
StartDate(from, now) == IF ~IsNull(from) THEN Parse(Val(from)) ELSE SubDays(now, DefaultDays)
EndDate(to, now) == IF ~IsNull(to) THEN Parse(Val(to)) ELSE now
PeriodLength(startDate, endDate) == DifferenceInDays(endDate, startDate) + 1
LastPeriodStart(startDate, endDate) == SubDays(startDate, PeriodLength(startDate, endDate))
LastPeriodEnd(startDate, endDate) == SubDays(endDate, PeriodLength(startDate, endDate))

\* the possible response bodies of GET /summary for an authenticated user
SummaryData(txs, accts, cats, userId, from, to, accountId, now) ==
  LET startDate == StartDate(from, now)
      endDate == EndDate(to, now)
      currentPeriod == fetchFinancialData(txs, accts, userId, accountId, startDate, endDate)
      lastPeriod == fetchFinancialData(txs, accts, userId, accountId,
                      LastPeriodStart(startDate, endDate), LastPeriodEnd(startDate, endDate))
      days == DaysQuery(txs, accts, userId, accountId, startDate, endDate)
  IN {[remainingAmount |-> currentPeriod.remaining,
       remainingChange |-> calculatePercentageChange(currentPeriod.remaining, lastPeriod.remaining),
       incomeAmount |-> currentPeriod.income,
       incomeChange |-> calculatePercentageChange(currentPeriod.income, lastPeriod.income),
       expensesAmount |-> currentPeriod.expenses,
       expensesChange |-> calculatePercentageChange(currentPeriod.expenses, lastPeriod.expenses),
       categories |-> topCategories,
       days |-> fillMissingDays(days, startDate, endDate)] :
      topCategories \in TopCategoriesQuery(txs, accts, cats, userId, accountId, startDate, endDate)}

\* the import card is not mounted / the query cache is not in use
NoImporter == [data |-> <<>>]
NoCache == [data |-> <<>>]
\* no session has a call under way
NoSessions == <<>>

NoResponse == [status |-> 0]
NoRequest == [route |-> "none"]

\* GET /summary, one call at a time (each call runs to completion)
GetSummary(userId, from, to, accountId, now) ==
  /\ request = NoRequest
  /\ UNCHANGED client
  /\ request' = [route |-> "GET /summary", userId |-> userId, from |-> from, to |-> to,
                 accountId |-> accountId, now |-> now]
  /\ IF ~Truthy(userId)
     THEN response' = [status |-> 401, error |-> "Unauthorized"]
     ELSE \E data \in SummaryData(transactions, accounts, categories,
                                   userId, from, to, accountId, now) :
            response' = [status |-> 200, data |-> data]
  /\ UNCHANGED <<accounts, categories, transactions, idCounter>>

\* the response is returned to the client and the call is over
Return ==
  /\ request # NoRequest
  /\ UNCHANGED client
  /\ request' = NoRequest
  /\ response' = NoResponse
  /\ UNCHANGED <<accounts, categories, transactions, idCounter>>

----------------------------------------------------------------------------
(* categories.ts *)

\* the ids createId() returns, in order
CategoryIdPool == <<"c1", "c2", "c3", "c4", "c5", "c6">>

\* ON DELETE CASCADE in its place
CascadeCategory(txs, deletedIds) ==
  {t \in txs : IsNull(t.categoryId) \/ Val(t.categoryId) \notin deletedIds}

\* ON DELETE SET NULL of transactions.category_id
SetNullCategory(txs, deletedIds) ==
  {IF ~IsNull(t.categoryId) /\ Val(t.categoryId) \in deletedIds
   THEN [t EXCEPT !.categoryId = Null] ELSE t : t \in txs}

Unauthorized == [status |-> 401, error |-> "Unauthorized."]
MissingId == [status |-> 400, error |-> "Missing id."]
NotFound == [status |-> 404, error |-> "Not found."]

\* WHERE userId = user.userId
ListWhere(cats, userId) == {c \in cats : c.userId = userId}

\* WHERE without the owner
OneWhereAnyOwner(cats, userId, id) == {c \in cats : c.id = id}

\* WHERE userId = user.userId AND id = id
OneWhere(cats, userId, id) == {c \in cats : c.userId = userId /\ c.id = id}

\* WHERE without the owner
ManyWhereAnyOwner(cats, userId, ids) == {c \in cats : c.id \in ids}

\* WHERE userId = user.userId AND id IN ids
ManyWhere(cats, userId, ids) == {c \in cats : c.userId = userId /\ c.id \in ids}

\* GET /categories
GetCategories(userId) ==
  /\ request = NoRequest
  /\ UNCHANGED client
  /\ request' = [route |-> "GET /categories", userId |-> userId]
  /\ response' =
       IF ~Truthy(userId) THEN Unauthorized
       ELSE [status |-> 200,
             data |-> {[id |-> c.id, name |-> c.name] : c \in ListWhere(categories, userId)}]
  /\ UNCHANGED <<accounts, categories, transactions, idCounter>>

\* GET /categories/:id
GetCategory(userId, id) ==
  /\ request = NoRequest
  /\ UNCHANGED client
  /\ request' = [route |-> "GET /categories/:id", userId |-> userId, id |-> id]
  /\ response' =
       IF ~Truthy(id) THEN MissingId
       ELSE IF ~Truthy(userId) THEN Unauthorized
       ELSE LET found == OneWhere(categories, userId, id)
            IN IF found = {} THEN NotFound
               ELSE LET c == CHOOSE x \in found : TRUE
                    IN [status |-> 200, data |-> [id |-> c.id, name |-> c.name]]
  /\ UNCHANGED <<accounts, categories, transactions, idCounter>>

\* POST /categories
CreateCategory(userId, name) ==
  /\ request = NoRequest
  /\ UNCHANGED client
  /\ request' = [route |-> "POST /categories", userId |-> userId, name |-> name]
  /\ IF ~Truthy(userId)
     THEN /\ response' = Unauthorized
          /\ UNCHANGED <<categories, idCounter>>
     ELSE /\ idCounter < MaxCategoryIds
          /\ LET row == [id |-> CategoryIdPool[idCounter + 1], name |-> name, userId |-> userId]
             IN /\ categories' = categories \cup {row}
                /\ response' = [status |-> 200, data |-> row]
          /\ idCounter' = idCounter + 1
  /\ UNCHANGED <<accounts, transactions>>

\* POST /categories/bulk-delete
BulkDeleteCategories(userId, ids) ==
  /\ request = NoRequest
  /\ UNCHANGED client
  /\ request' = [route |-> "POST /categories/bulk-delete", userId |-> userId, ids |-> ids]
  /\ IF ~Truthy(userId)
     THEN /\ response' = Unauthorized
          /\ UNCHANGED <<categories, transactions>>
     ELSE LET deleted == ManyWhere(categories, userId, ids)
          IN /\ categories' = categories \ deleted
             /\ transactions' = SetNullCategory(transactions, {c.id : c \in deleted})
             /\ response' = [status |-> 200, data |-> {[id |-> c.id] : c \in deleted}]
  /\ UNCHANGED <<accounts, idCounter>>

\* PATCH /categories/:id
PatchCategory(userId, id, name) ==
  /\ request = NoRequest
  /\ UNCHANGED client
  /\ request' = [route |-> "PATCH /categories/:id", userId |-> userId, id |-> id,
                 name |-> name]
  /\ IF ~Truthy(id)
     THEN response' = MissingId /\ UNCHANGED categories
     ELSE IF ~Truthy(userId)
     THEN response' = Unauthorized /\ UNCHANGED categories
     ELSE LET updated == {[c EXCEPT !.name = name] : c \in OneWhere(categories, userId, id)}
          IN /\ categories' = (categories \ OneWhere(categories, userId, id)) \cup updated
             /\ response' = IF updated = {} THEN NotFound
                            ELSE [status |-> 200, data |-> CHOOSE x \in updated : TRUE]
  /\ UNCHANGED <<accounts, transactions, idCounter>>

\* DELETE /categories/:id
DeleteCategory(userId, id) ==
  /\ request = NoRequest
  /\ UNCHANGED client
  /\ request' = [route |-> "DELETE /categories/:id", userId |-> userId, id |-> id]
  /\ IF ~Truthy(id)
     THEN response' = MissingId /\ UNCHANGED <<categories, transactions>>
     ELSE IF ~Truthy(userId)
     THEN response' = Unauthorized /\ UNCHANGED <<categories, transactions>>
     ELSE LET deleted == OneWhere(categories, userId, id)
          IN /\ categories' = categories \ deleted
             /\ transactions' = SetNullCategory(transactions, {c.id : c \in deleted})
             /\ response' = IF deleted = {} THEN NotFound
                            ELSE [status |-> 200, data |-> [id |-> id]]
  /\ UNCHANGED <<accounts, idCounter>>

----------------------------------------------------------------------------
(* transactions.ts (features README, "Transaction Router")                 *)
(* A stored transaction is [id, amount, accountId, date, categoryId,       *)
(* payee]; the optional notes column is carried exactly like payee and is  *)
(* left out. The values of a request are the same record without id.       *)

\* the ids createId() returns, in order
TransactionIdPool == <<"t1", "t2", "t3", "t4", "t5", "t6", "t7", "t8">>

TxUnauthorized == [status |-> 401, error |-> "Unauthorized"]
TxMissingId == [status |-> 400, error |-> "Missing id"]
TxNotFound == [status |-> 404, error |-> "Not found"]
InvalidAccount == [status |-> 400, error |-> "Invalid account"]
InvalidAccounts == [status |-> 400, error |-> "Invalid account(s)"]

\* a statement the database rejects throws; no handler catches it and the
\* router has no onError, so Hono answers 500
InternalError == [status |-> 500, error |-> "Internal Server Error"]

\* REFERENCES category(id) of transactions.category_id
CategoryKeyHolds(cats, values) ==
  IsNull(values.categoryId) \/ \E c \in cats : c.id = Val(values.categoryId)

\* SELECT FROM accounts WHERE userId = auth.userId AND id = values.accountId
AccountOf(accts, userId, accountId) ==
  {a \in accts : a.userId = userId /\ a.id = accountId}

\* the WHERE of a single transaction without the owner
TxOneWhereAnyOwner(txs, accts, userId, id) == {t \in txs : t.id = id}

\* FROM accounts WHERE transactions.id = id AND accounts.userId = auth.userId
\*                 AND transactions.accountId = accounts.id
TxOneWhere(txs, accts, userId, id) ==
  {t \in txs : /\ t.id = id
               /\ \E a \in accts : a.id = t.accountId /\ a.userId = userId}

\* FROM accounts WHERE transactions.id IN ids AND accounts.userId = auth.userId
\*                 AND transactions.accountId = accounts.id
TxManyWhere(txs, accts, userId, ids) ==
  {t \in txs : /\ t.id \in ids
               /\ \E a \in accts : a.id = t.accountId /\ a.userId = userId}

\* the WHERE of GET /transactions over the inner join with accounts
TransactionsWhere(txs, accts, userId, accountId, startDate, endDate) ==
  {t \in txs : \E a \in accts :
      /\ t.accountId = a.id
      /\ (Truthy(accountId) => t.accountId = accountId)
      /\ a.userId = userId
      /\ t.date >= startDate
      /\ t.date <= endDate}

\* the selected columns of a row: category is the name of the left-joined
\* category, account the name of the inner-joined account
ListRow(accts, cats, t) ==
  [id |-> t.id, date |-> t.date, category |-> JoinedCategoryName(cats, t),
   categoryId |-> t.categoryId, payee |-> t.payee, amount |-> t.amount,
   account |-> (CHOOSE a \in accts : a.id = t.accountId).name,
   accountId |-> t.accountId]

\* the possible results of the list query: ORDER BY date DESC, the order
\* among equal dates being the engine's
ListData(txs, accts, cats, userId, accountId, startDate, endDate) ==
  LET rows == TransactionsWhere(txs, accts, userId, accountId, startDate, endDate)
  IN {[i \in 1..Len(s) |-> ListRow(accts, cats, s[i])] :
      s \in OrderedGroups([t \in rows |-> t.date], rows)}

\* GET /transactions
GetTransactions(userId, from, to, accountId, now) ==
  /\ request = NoRequest
  /\ UNCHANGED client
  /\ request' = [route |-> "GET /transactions", userId |-> userId, from |-> from,
                 to |-> to, accountId |-> accountId, now |-> now]
  /\ IF ~Truthy(userId)
     THEN response' = TxUnauthorized
     ELSE \E data \in ListData(transactions, accounts, categories, userId, accountId,
                               StartDate(from, now), EndDate(to, now)) :
            response' = [status |-> 200, data |-> data]
  /\ UNCHANGED <<accounts, categories, transactions, idCounter>>

\* GET /transactions/:id
GetTransaction(userId, id) ==
  /\ request = NoRequest
  /\ UNCHANGED client
  /\ request' = [route |-> "GET /transactions/:id", userId |-> userId, id |-> id]
  /\ IF ~Truthy(userId)
     THEN response' = TxUnauthorized
     ELSE IF ~Truthy(id)
     THEN response' = TxMissingId
     ELSE LET found == TxOneWhere(transactions, accounts, userId, id)
          IN response' = IF found = {} THEN TxNotFound
                         ELSE [status |-> 200, data |-> CHOOSE t \in found : TRUE]
  /\ UNCHANGED <<accounts, categories, transactions, idCounter>>

\* an insert that gives every row of a statement the same id
NewRowOneId(id, values) ==
  [id |-> "t1", amount |-> values.amount, accountId |-> values.accountId,
   date |-> values.date, categoryId |-> values.categoryId, payee |-> values.payee]

\* the row an insert stores for the values of a request
NewRow(id, values) ==
  [id |-> id, amount |-> values.amount, accountId |-> values.accountId,
   date |-> values.date, categoryId |-> values.categoryId, payee |-> values.payee]

\* POST /transactions
CreateTransaction(userId, values) ==
  /\ request = NoRequest
  /\ UNCHANGED client
  /\ idCounter < MaxTransactionIds
  /\ request' = [route |-> "POST /transactions", userId |-> userId, values |-> values]
  /\ IF ~Truthy(userId)
     THEN response' = TxUnauthorized /\ UNCHANGED <<transactions, idCounter>>
     ELSE IF AccountOf(accounts, userId, values.accountId) = {}
     THEN response' = InvalidAccount /\ UNCHANGED <<transactions, idCounter>>
     ELSE IF ~CategoryKeyHolds(categories, values)
     THEN response' = InternalError /\ idCounter' = idCounter + 1
          /\ UNCHANGED transactions
     ELSE LET row == NewRow(TransactionIdPool[idCounter + 1], values)
          IN /\ transactions' = transactions \cup {row}
             /\ idCounter' = idCounter + 1
             /\ response' = [status |-> 200, data |-> row]
  /\ UNCHANGED <<accounts, categories>>

\* POST /transactions/bulk-create: values is the array of the body. One
\* INSERT statement stores all rows or, when a row breaks a constraint or
\* the array is empty, throws and stores none.
BulkCreateTransactions(userId, values) ==
  /\ request = NoRequest
  /\ UNCHANGED client
  /\ idCounter + Len(values) <= MaxTransactionIds
  /\ request' = [route |-> "POST /transactions/bulk-create", userId |-> userId,
                 values |-> values]
  /\ IF ~Truthy(userId)
     THEN response' = TxUnauthorized /\ UNCHANGED <<transactions, idCounter>>
     ELSE LET accountIds == {values[i].accountId : i \in 1..Len(values)}
              userAccounts == {a \in accounts : a.userId = userId /\ a.id \in accountIds}
              rows == [i \in 1..Len(values) |->
                         NewRow(TransactionIdPool[idCounter + i], values[i])]
          IN IF Cardinality(userAccounts) # Cardinality(accountIds)
             THEN response' = InvalidAccounts /\ UNCHANGED <<transactions, idCounter>>
             ELSE IF \/ Len(values) = 0
                     \/ \E i \in 1..Len(values) : ~CategoryKeyHolds(categories, values[i])
             THEN /\ response' = InternalError
                  /\ idCounter' = idCounter + Len(values)
                  /\ UNCHANGED transactions
             ELSE /\ transactions' = transactions \cup {rows[i] : i \in 1..Len(values)}
                  /\ idCounter' = idCounter + Len(values)
                  /\ response' = [status |-> 200, data |-> rows]
  /\ UNCHANGED <<accounts, categories>>

\* PATCH /transactions/:id
PatchTransaction(userId, id, values) ==
  /\ request = NoRequest
  /\ UNCHANGED client
  /\ request' = [route |-> "PATCH /transactions/:id", userId |-> userId, id |-> id,
                 values |-> values]
  /\ IF ~Truthy(userId)
     THEN response' = TxUnauthorized /\ UNCHANGED transactions
     ELSE IF ~Truthy(id)
     THEN response' = TxMissingId /\ UNCHANGED transactions
     ELSE IF AccountOf(accounts, userId, values.accountId) = {}
     THEN response' = InvalidAccount /\ UNCHANGED transactions
     ELSE LET matched == TxOneWhere(transactions, accounts, userId, id)
          IN IF matched = {}
             THEN response' = TxNotFound /\ UNCHANGED transactions
             ELSE IF ~CategoryKeyHolds(categories, values)
             THEN response' = InternalError /\ UNCHANGED transactions
             ELSE /\ transactions' = (transactions \ matched) \cup {NewRow(id, values)}
                  /\ response' = [status |-> 200, data |-> NewRow(id, values)]
  /\ UNCHANGED <<accounts, categories, idCounter>>

\* Hono runs the handlers of the routes that match the method and the path
\* in the order of their registration, and the first handler that returns a
\* response ends the request. A path below a router is one segment, never
\* empty; "/:id" matches every segment.
Matches(pattern, segment) == pattern = "/:id" \/ pattern = segment

FirstMatch(routes, segment) ==
  LET hit == {i \in 1..Len(routes) : Matches(routes[i], segment)}
  IN routes[CHOOSE i \in hit : \A j \in hit : i <= j]

\* the DELETE routes of the transactions router, in the order of registration
TransactionDeleteRoutes == <<"/:id", "/bulk-delete">>

\* DELETE /transactions/<segment> with a JSON body {ids}: the handler of
\* "/:id" takes the segment as id; the handler of "/bulk-delete" takes ids
DeleteTransactions(userId, segment, ids) ==
  /\ request = NoRequest
  /\ UNCHANGED client
  /\ IF FirstMatch(TransactionDeleteRoutes, segment) = "/:id"
     THEN /\ request' = [route |-> "DELETE /transactions/:id", userId |-> userId,
                         id |-> segment, ids |-> ids]
          /\ IF ~Truthy(userId)
             THEN response' = TxUnauthorized /\ UNCHANGED transactions
             ELSE IF ~Truthy(segment)
             THEN response' = TxMissingId /\ UNCHANGED transactions
             ELSE LET matched == TxOneWhere(transactions, accounts, userId, segment)
                  IN /\ transactions' = transactions \ matched
                     /\ response' = IF matched = {} THEN TxNotFound
                                    ELSE [status |-> 200, data |-> CHOOSE t \in matched : TRUE]
     ELSE /\ request' = [route |-> "DELETE /transactions/bulk-delete", userId |-> userId,
                         id |-> segment, ids |-> ids]
          /\ IF ~Truthy(userId)
             THEN response' = TxUnauthorized /\ UNCHANGED transactions
             ELSE LET matched == TxManyWhere(transactions, accounts, userId, ids)
                  IN /\ transactions' = transactions \ matched
                     /\ response' = [status |-> 200, data |-> {[id |-> t.id] : t \in matched}]
  /\ UNCHANGED <<accounts, categories, idCounter>>

----------------------------------------------------------------------------
(* accounts.ts (routing guide, "Accounts Router")                          *)
(* A stored account is [id, name, userId]; the optional email column is    *)
(* never written by the router and is left out.                            *)

\* the ids createId() returns, in order
AccountIdPool == <<"n1", "n2", "n3", "n4", "n5", "n6">>

\* a foreign key that leaves the transactions of a deleted account
CascadeNothing(txs, deletedIds) == txs

\* ON DELETE CASCADE of transactions.account_id
CascadeAccount(txs, deletedIds) == {t \in txs : t.accountId \notin deletedIds}

\* a list without the owner
AccountsWhereAnyOwner(accts, userId) == accts

\* WHERE userId = auth.userId
AccountsWhere(accts, userId) == {a \in accts : a.userId = userId}

\* WHERE userId = auth.userId AND id = id
AccountOneWhere(accts, userId, id) == {a \in accts : a.userId = userId /\ a.id = id}

\* WHERE userId = auth.userId AND id IN ids
AccountManyWhere(accts, userId, ids) == {a \in accts : a.userId = userId /\ a.id \in ids}

\* the possible results of the list query: the rows in the engine's order
AccountsData(accts, userId) ==
  LET rows == AccountsWhere(accts, userId)
  IN {[i \in 1..Len(s) |-> [id |-> s[i].id, name |-> s[i].name]] :
      s \in OrderedGroups([a \in rows |-> 0], rows)}

\* GET /accounts
GetAccounts(userId) ==
  /\ request = NoRequest
  /\ UNCHANGED client
  /\ request' = [route |-> "GET /accounts", userId |-> userId]
  /\ IF ~Truthy(userId)
     THEN response' = TxUnauthorized
     ELSE \E data \in AccountsData(accounts, userId) :
            response' = [status |-> 200, data |-> data]
  /\ UNCHANGED <<accounts, categories, transactions, idCounter>>

\* POST /accounts
CreateAccount(userId, name) ==
  /\ request = NoRequest
  /\ UNCHANGED client
  /\ idCounter < MaxAccountIds
  /\ request' = [route |-> "POST /accounts", userId |-> userId, name |-> name]
  /\ IF ~Truthy(userId)
     THEN response' = TxUnauthorized /\ UNCHANGED <<accounts, idCounter>>
     ELSE LET row == [id |-> AccountIdPool[idCounter + 1], name |-> name, userId |-> userId]
          IN /\ accounts' = accounts \cup {row}
             /\ idCounter' = idCounter + 1
             /\ response' = [status |-> 200, data |-> row]
  /\ UNCHANGED <<categories, transactions>>

\* GET /accounts/:id
GetAccount(userId, id) ==
  /\ request = NoRequest
  /\ UNCHANGED client
  /\ request' = [route |-> "GET /accounts/:id", userId |-> userId, id |-> id]
  /\ response' =
       IF ~Truthy(userId) THEN TxUnauthorized
       ELSE IF ~Truthy(id) THEN TxMissingId
       ELSE LET found == AccountOneWhere(accounts, userId, id)
            IN IF found = {} THEN TxNotFound
               ELSE [status |-> 200,
                     data |-> [id |-> id, name |-> (CHOOSE a \in found : TRUE).name]]
  /\ UNCHANGED <<accounts, categories, transactions, idCounter>>

\* PATCH /accounts/:id
PatchAccount(userId, id, name) ==
  /\ request = NoRequest
  /\ UNCHANGED client
  /\ request' = [route |-> "PATCH /accounts/:id", userId |-> userId, id |-> id,
                 name |-> name]
  /\ IF ~Truthy(userId)
     THEN response' = TxUnauthorized /\ UNCHANGED accounts
     ELSE IF ~Truthy(id)
     THEN response' = TxMissingId /\ UNCHANGED accounts
     ELSE LET matched == AccountOneWhere(accounts, userId, id)
              updated == {[a EXCEPT !.name = name] : a \in matched}
          IN /\ accounts' = (accounts \ matched) \cup updated
             /\ response' = IF matched = {} THEN TxNotFound
                            ELSE [status |-> 200, data |-> CHOOSE a \in updated : TRUE]
  /\ UNCHANGED <<categories, transactions, idCounter>>

\* the DELETE routes of the accounts router, in the order of registration
AccountDeleteRoutes == <<"/:id", "/bulk-delete">>

\* DELETE /accounts/<segment> with a JSON body {ids}: the handler of "/:id"
\* takes the segment as id; the handler of "/bulk-delete" takes ids
DeleteAccounts(userId, segment, ids) ==
  /\ request = NoRequest
  /\ UNCHANGED client
  /\ IF FirstMatch(AccountDeleteRoutes, segment) = "/:id"
     THEN /\ request' = [route |-> "DELETE /accounts/:id", userId |-> userId,
                         id |-> segment, ids |-> ids]
          /\ IF ~Truthy(userId)
             THEN response' = TxUnauthorized /\ UNCHANGED <<accounts, transactions>>
             ELSE IF ~Truthy(segment)
             THEN response' = TxMissingId /\ UNCHANGED <<accounts, transactions>>
             ELSE LET deleted == AccountOneWhere(accounts, userId, segment)
                  IN /\ accounts' = accounts \ deleted
                     /\ transactions' = CascadeAccount(transactions, {a.id : a \in deleted})
                     /\ response' = IF deleted = {} THEN TxNotFound
                                    ELSE [status |-> 200, data |-> CHOOSE a \in deleted : TRUE]
     ELSE /\ request' = [route |-> "DELETE /accounts/bulk-delete", userId |-> userId,
                         id |-> segment, ids |-> ids]
          /\ IF ~Truthy(userId)
             THEN response' = TxUnauthorized /\ UNCHANGED <<accounts, transactions>>
             ELSE LET deleted == AccountManyWhere(accounts, userId, ids)
                  IN /\ accounts' = accounts \ deleted
                     /\ transactions' = CascadeAccount(transactions, {a.id : a \in deleted})
                     /\ response' = [status |-> 200, data |-> {[id |-> a.id] : a \in deleted}]
  /\ UNCHANGED <<categories, idCounter>>

----------------------------------------------------------------------------
(* import-card.tsx and import-table.tsx (features README)                  *)
(* The text of an amount or date cell is the sequence of its characters;   *)
(* the text of any other cell is a string that nothing looks into.         *)

Digits == {"0", "1", "2", "3", "4", "5", "6", "7", "8", "9"}
DigitValue(c) ==
  CASE c = "0" -> 0 [] c = "1" -> 1 [] c = "2" -> 2 [] c = "3" -> 3 [] c = "4" -> 4
    [] c = "5" -> 5 [] c = "6" -> 6 [] c = "7" -> 7 [] c = "8" -> 8 [] c = "9" -> 9

\* the number of digits of s from position i on, at most max
RECURSIVE DigitRun(_, _, _)
DigitRun(s, i, max) ==
  IF max > 0 /\ i <= Len(s) /\ s[i] \in Digits THEN 1 + DigitRun(s, i + 1, max - 1) ELSE 0

\* the number written by the n digits of s from position i on
RECURSIVE NumberOf(_, _, _)
NumberOf(s, i, n) ==
  IF n = 0 THEN 0 ELSE NumberOf(s, i, n - 1) * 10 + DigitValue(s[i + n - 1])

RECURSIVE Pow10(_)
Pow10(n) == IF n = 0 THEN 1 ELSE 10 * Pow10(n - 1)

\* parseFloat of a decimal literal: a sign, digits, a point and digits, read
\* as far as the text allows; NaN when no digit was read
parseFloat(s) ==
  LET signed == Len(s) >= 1 /\ s[1] \in {"-", "+"}
      sign == IF Len(s) >= 1 /\ s[1] = "-" THEN -1 ELSE 1
      start == IF signed THEN 2 ELSE 1
      ni == DigitRun(s, start, Len(s))
      point == start + ni <= Len(s) /\ s[start + ni] = "."
      nf == IF point THEN DigitRun(s, start + ni + 1, Len(s)) ELSE 0
  IN IF ni + nf = 0 THEN NaN
     ELSE Rat(sign * (NumberOf(s, start, ni) * Pow10(nf) + NumberOf(s, start + ni + 1, nf)),
              Pow10(nf))

\* x * k for a JS number x and an integer k > 0
Times(x, k) == IF x.kind = "num" THEN Rat(x.n * k, x.d) ELSE x

\* Math.round: the nearest integer, a half going up; NaN stays NaN, which is
\* modelled as Null, the value JSON.stringify writes for it
MathRound(x) ==
  IF x.kind # "num" THEN Null ELSE Some((2 * x.n + x.d) \div (2 * x.d))

\* the days from 1970-01-01 to the day d of month m of year y
DaysFromCivil(y, m, d) ==
  LET yy == IF m <= 2 THEN y - 1 ELSE y
      era == yy \div 400
      yoe == yy - era * 400
      mp == (m + 9) % 12
      doy == (153 * mp + 2) \div 5 + d - 1
      doe == yoe * 365 + yoe \div 4 - yoe \div 100 + doy
  IN era * 146097 + doe - 719468

DaysInMonth(y, m) ==
  IF m = 2 THEN (IF (y % 4 = 0 /\ y % 100 # 0) \/ y % 400 = 0 THEN 29 ELSE 28)
  ELSE IF m \in {4, 6, 9, 11} THEN 30 ELSE 31

\* one numeric token of a date-fns format: up to max digits at position i
Token(s, i, max) ==
  LET n == DigitRun(s, i, max)
  IN [ok |-> n > 0, value |-> NumberOf(s, i, n), next |-> i + n]

\* a literal character of the format at position i
Literal(s, i, c) == i <= Len(s) /\ s[i] = c

\* const dateFormat = "yyyy-MM-dd HH:mm:ss"
dateFormat == <<"y", "-", "M", "-", "d", " ", "H", ":", "m", ":", "s">>

TokenWidth(f) == IF f = "y" THEN 4 ELSE 2

\* the fields read from position i of s for the rest fmt of a format, Null
\* when the text does not fit the format
RECURSIVE ReadFields(_, _, _, _)
ReadFields(s, i, fmt, fields) ==
  IF fmt = <<>> THEN (IF i = Len(s) + 1 THEN Some(fields) ELSE Null)
  ELSE IF Head(fmt) \in {"y", "M", "d", "H", "m", "s"}
  THEN LET t == Token(s, i, TokenWidth(Head(fmt)))
       IN IF t.ok
          THEN ReadFields(s, t.next, Tail(fmt), [fields EXCEPT ![Head(fmt)] = t.value])
          ELSE Null
  ELSE IF Literal(s, i, Head(fmt)) THEN ReadFields(s, i + 1, Tail(fmt), fields)
  ELSE Null

\* parse(text, format, new Date()) of date-fns: the instant the text names,
\* Null (Invalid Date) when the text does not fit the format or names no
\* date; a field the format lacks is midnight's
ParseDate(s, fmt) ==
  LET read == ReadFields(s, 1, fmt, [y |-> 0, M |-> 0, d |-> 0, H |-> 0, m |-> 0, s |-> 0])
  IN IF IsNull(read) THEN Null
     ELSE LET f == Val(read)
          IN IF \/ f.M \notin 1..12
                \/ f.d < 1
                \/ f.d > DaysInMonth(f.y, f.M)
                \/ f.H > 23 \/ f.m > 59 \/ f.s > 59
             THEN Null
             ELSE Some(DaysFromCivil(f.y, f.M, f.d) * TicksPerDay
                       + ((f.H * 3600 + f.m * 60 + f.s) * TicksPerDay) \div 86400)

\* zValidator("json", insertTransactionSchema.omit({ id })) of POST
\* /transactions. A body is [amount, date, payee, accountId] as JSON wrote
\* them: NaN and an Invalid Date are written null. amount must be a number;
\* date is z.coerce.date(), which is new Date(value): null gives the epoch.
ValidationError == [status |-> 400, error |-> "ZodError"]

ValidBody(json) == ~IsNull(json.amount)

\* z.coerce.date(): new Date(value)
CoerceDate(d) == IF IsNull(d) THEN Some(0) ELSE d

ParsedBody(json) ==
  [amount |-> Val(json.amount), accountId |-> json.accountId,
   date |-> Val(CoerceDate(json.date)), categoryId |-> Null, payee |-> json.payee]

\* POST /transactions with a body that has yet to pass the validator, which
\* runs before the handler
PostTransaction(userId, json) ==
  IF ValidBody(json)
  THEN CreateTransaction(userId, ParsedBody(json))
  ELSE /\ request = NoRequest
       /\ request' = [route |-> "POST /transactions", userId |-> userId, json |-> json]
       /\ response' = ValidationError
       /\ UNCHANGED <<accounts, categories, transactions, idCounter, client>>

requiredOptions == <<"amount", "date", "payee">>
optionalOptions == <<"notes", "category">>

\* the elements of a sequence
Range(s) == {s[i] : i \in 1..Len(s)}

\* ImportTable: the state is selectedColumns, here the function from the
\* column to the selected field or Null (a column without a key and a
\* column whose key holds null are the same to every reader)
NoColumns(n) == [c \in 1..n |-> Null]

\* a change that leaves the field with its former column
onTableHeadSelectChangeKeeping(selectedColumns, columnIndex, value) ==
  [c \in DOMAIN selectedColumns |->
     IF c = columnIndex THEN (IF value = "skip" THEN Null ELSE Some(value))
     ELSE selectedColumns[c]]

\* onTableHeadSelectChange: every column that holds the value is cleared,
\* then "skip" becomes null and the column is set
onTableHeadSelectChange(selectedColumns, columnIndex, value) ==
  [c \in DOMAIN selectedColumns |->
     IF c = columnIndex THEN (IF value = "skip" THEN Null ELSE Some(value))
     ELSE IF selectedColumns[c] = Some(value) THEN Null
     ELSE selectedColumns[c]]

\* a test that is content with one required field
SomeRequiredFilled(selectedColumns) ==
  \E k \in 1..Len(requiredOptions) :
    \E c \in DOMAIN selectedColumns : selectedColumns[c] = Some(requiredOptions[k])

\* requiredOptions.every(option => Object.values(selectedColumns).includes(option.key))
RequiredFilled(selectedColumns) ==
  \A k \in 1..Len(requiredOptions) :
    \E c \in DOMAIN selectedColumns : selectedColumns[c] = Some(requiredOptions[k])

\* getProgress()
getProgress(imp) ==
  IF imp.isImporting THEN imp.progress
  ELSE IF RequiredFilled(imp.selectedColumns) THEN Rat(100, 1) ELSE Rat(0, 1)

\* the Continue button is not disabled
ContinueEnabled(imp) ==
  LET p == getProgress(imp)
  IN ~(p.n < 100 * p.d) /\ ~imp.isImporting

\* getColumnIndex(column): the first column that selects the field
getColumnIndex(selectedColumns, column) ==
  LET hit == {c \in DOMAIN selectedColumns : selectedColumns[c] = Some(column)}
  IN IF hit = {} THEN Null ELSE Some(CHOOSE c \in hit : \A k \in hit : c <= k)

\* the text of the cell a field is taken from, "" for a field no column selects
CellOf(selectedColumns, row, column) ==
  LET columnIndex == getColumnIndex(selectedColumns, column)
  IN IF IsNull(columnIndex) THEN <<>> ELSE row[Val(columnIndex)]

\* handleContinue: the mapped rows of the body
MappedData(selectedColumns, body) ==
  [r \in 1..Len(body) |->
     [amount |-> CellOf(selectedColumns, body[r], "amount"),
      date |-> CellOf(selectedColumns, body[r], "date"),
      payee |-> CellOf(selectedColumns, body[r], "payee"),
      notes |-> CellOf(selectedColumns, body[r], "notes"),
      category |-> CellOf(selectedColumns, body[r], "category")]]

\* onSubmitImport: the create payload of a mapped row, as JSON writes it
Payload(value, accountId) ==
  [amount |-> MathRound(Times(parseFloat(value.amount), 1000)),
   date |-> ParseDate(value.date, dateFormat),
   payee |-> value.payee,
   accountId |-> accountId]

\* ImportCard: data, progress and isImporting are its state, selectedColumns
\* the state of the mounted ImportTable; queue and i are the local data and
\* i of a running onSubmitImport. stored keeps the ids the awaited creates
\* of the last batch returned, which the code drops.
ImportCardInit ==
  [data |-> <<>>, progress |-> Rat(0, 1), isImporting |-> FALSE, selectedColumns |-> <<>>,
   queue |-> <<>>, i |-> 0, stored |-> {}, toast |-> "none"]

\* onUpload: the table is mounted with no column selected
onUpload(csv) ==
  /\ importer.data = <<>>
  /\ importer' = [importer EXCEPT !.data = csv,
                                  !.selectedColumns = NoColumns(Len(csv[1]))]
  /\ UNCHANGED <<accounts, categories, transactions, idCounter, request, response, cache,
               sessions>>

\* a select of a column header changes
SelectColumn(columnIndex, value) ==
  /\ importer.data # <<>>
  /\ importer' = [importer EXCEPT
                    !.selectedColumns = onTableHeadSelectChange(@, columnIndex, value)]
  /\ UNCHANGED <<accounts, categories, transactions, idCounter, request, response, cache,
               sessions>>

\* const accountId = "" of onSubmitImport: every payload names this account
importAccountIdOfForm == "a1"
importAccountId == ""

\* onCancelImport: the table is unmounted
Cancelled(imp) ==
  [imp EXCEPT !.data = <<>>, !.progress = Rat(0, 1), !.selectedColumns = <<>>]

onCancelImport ==
  /\ importer.data # <<>>
  /\ importer' = Cancelled(importer)
  /\ UNCHANGED <<accounts, categories, transactions, idCounter, request, response, cache,
               sessions>>

\* a click on Continue: handleContinue maps the body and onSubmitImport
\* builds the payloads and starts the loop; with no row the loop is over at
\* once.
handleContinue ==
  /\ importer.data # <<>>
  /\ ContinueEnabled(importer)
  /\ LET body == Tail(importer.data)
         values == MappedData(importer.selectedColumns, body)
         data == [r \in 1..Len(values) |-> Payload(values[r], importAccountId)]
     IN importer' =
          IF Len(data) = 0
          THEN [Cancelled(importer) EXCEPT !.queue = <<>>, !.i = 0, !.stored = {},
                                           !.toast = "success"]
          ELSE [importer EXCEPT !.isImporting = TRUE, !.queue = data, !.i = 0,
                                !.stored = {}, !.toast = "none"]
  /\ UNCHANGED <<accounts, categories, transactions, idCounter, request, response, cache,
               sessions>>

\* await createTransaction(data[i]): the request of the create mutation
ImportSend(userId) ==
  /\ importer.isImporting
  /\ importer.i < Len(importer.queue)
  /\ PostTransaction(userId, importer.queue[importer.i + 1])

\* the awaited call is over: a response that is not ok throws, which ends
\* the loop in catch and finally; otherwise setProgress, and after the last
\* row onCancelImport
ImportReceive ==
  /\ importer.isImporting
  /\ request # NoRequest
  /\ request' = NoRequest
  /\ response' = NoResponse
  /\ IF response.status = 200
     THEN LET i == importer.i + 1
              n == Len(importer.queue)
              stored == importer.stored \cup {response.data.id}
          IN importer' =
               IF i < n
               THEN [importer EXCEPT !.i = i, !.progress = Rat(i * 100, n),
                                     !.stored = stored]
               ELSE [Cancelled(importer) EXCEPT !.isImporting = FALSE, !.queue = <<>>,
                                                !.i = 0, !.stored = stored,
                                                !.toast = "success"]
     ELSE importer' = [importer EXCEPT !.isImporting = FALSE, !.queue = <<>>, !.i = 0,
                                       !.toast = "error"]
  /\ UNCHANGED <<accounts, categories, transactions, idCounter, cache,
               sessions>>

----------------------------------------------------------------------------
(* The query cache and the optimistic mutations *)
(* The cache keeps one entry per query key. getQueryData and setQueryData  *)
(* address the entry of exactly the key given; cancelQueries and           *)
(* invalidateQueries address every entry whose key starts with the key     *)
(* given. The list queries are kept under ["accounts", userId],            *)
(* ["categories", userId] and ["transactions", filters], the filters being *)
(* written "filters" here.                                                 *)

ListKeys == {<<"accounts", UserA>>, <<"categories", UserA>>, <<"transactions", "filters">>}
HookKeys == {<<"accounts">>, <<"categories">>, <<"transactions">>}
QueryKeys == ListKeys \cup HookKeys

IsPrefix(p, k) == Len(p) <= Len(k) /\ SubSeq(k, 1, Len(p)) = p

\* an entry without data, and the cache of a page whose list queries are
\* mounted. mutations are the mutations under way, started counts them,
\* cancelled says that the fetch under way was cancelled.
NoQuery == [data |-> Null, isInvalidated |-> FALSE]
QueryClientInit ==
  [queries |-> [k \in QueryKeys |-> NoQuery], mutations |-> {}, started |-> 0,
   cancelled |-> FALSE]

\* the entries a filter of cancelQueries or invalidateQueries matches: the
\* mounted list queries and the entries that were given data
Matched(queries, key) ==
  {k \in QueryKeys : IsPrefix(key, k) /\ (k \in ListKeys \/ ~IsNull(queries[k].data))}

getQueryData(queries, key) == queries[key].data

\* setQueryData(key, data): undefined data leaves the cache as it is
setQueryData(queries, key, data) ==
  IF IsNull(data) THEN queries
  ELSE [queries EXCEPT ![key] = [data |-> data, isInvalidated |-> FALSE]]

invalidateQueries(queries, key) ==
  [k \in QueryKeys |->
     IF k \in Matched(queries, key) THEN [queries[k] EXCEPT !.isInvalidated = TRUE]
     ELSE queries[k]]

\* the list query a GET route belongs to
ListRoutes == {"GET /accounts", "GET /categories", "GET /transactions"}
ListKeyOf(route) ==
  IF route = "GET /accounts" THEN <<"accounts", UserA>>
  ELSE IF route = "GET /categories" THEN <<"categories", UserA>>
  ELSE <<"transactions", "filters">>

\* the fetch under way is one that a filter on key cancels
FetchMatches(key) == request.route \in ListRoutes /\ IsPrefix(key, ListKeyOf(request.route))

\* the three hooks with an optimistic update, their keys and their routes
Hooks == {"updateAccount", "useCreateCategory", "useCreateTransaction"}
HookKey(hook) ==
  IF hook = "updateAccount" THEN <<"accounts">>
  ELSE IF hook = "useCreateCategory" THEN <<"categories">>
  ELSE <<"transactions">>
MutationRoutes == {"PATCH /accounts/:id", "POST /categories", "POST /transactions"}

\* the updater of onMutate applied to the data of the entry. The data of
\* ['transactions'] is the object {...old, data: [...]}, of which the list
\* under data is kept here.
Optimistic(hook, old, variables) ==
  IF hook = "updateAccount"
  THEN IF IsNull(old) THEN Null
       ELSE Some([i \in 1..Len(Val(old)) |->
                    IF Val(old)[i].id = variables.id THEN variables @@ Val(old)[i]
                    ELSE Val(old)[i]])
  ELSE LET temp == variables @@ [id |-> "temp-id"]
           list == IF IsNull(old) THEN <<>> ELSE Val(old)
       IN IF hook = "useCreateCategory" THEN Some(list \o <<temp>>)
          ELSE Some(<<temp>> \o list)

\* onMutate: cancelQueries, the snapshot, the optimistic update
onMutate(hook, variables) ==
  /\ cache.started < MaxMutations
  /\ LET key == HookKey(hook)
         previous == getQueryData(cache.queries, key)
         mutation == [id |-> cache.started + 1, hook |-> hook, variables |-> variables,
                      context |-> previous, phase |-> "mutated"]
     IN cache' = [cache EXCEPT
                    !.queries = setQueryData(@, key, Optimistic(hook, previous, variables)),
                    !.mutations = @ \cup {mutation},
                    !.started = @ + 1,
                    !.cancelled = @ \/ FetchMatches(key)]
  /\ UNCHANGED <<accounts, categories, transactions, idCounter, request, response, importer,
               sessions>>

\* the mutations whose mutationFn has yet to return, and the first of them
Unanswered == {m \in cache.mutations : m.phase = "mutated"}
FirstUnanswered == CHOOSE m \in Unanswered : \A o \in Unanswered : m.id <= o.id

\* mutationFn: the request of the first mutation that waits for its answer
MutationSend(userId) ==
  /\ Unanswered # {}
  /\ LET m == FirstUnanswered
     IN IF m.hook = "updateAccount"
        THEN PatchAccount(userId, m.variables.id, m.variables.name)
        ELSE IF m.hook = "useCreateCategory"
        THEN CreateCategory(userId, m.variables.name)
        ELSE PostTransaction(userId, m.variables)

\* mutationFn returns or throws
MutationReceive ==
  /\ request.route \in MutationRoutes
  /\ request' = NoRequest
  /\ response' = NoResponse
  /\ LET m == FirstUnanswered
         phase == IF response.status = 200 THEN "succeeded" ELSE "failed"
     IN cache' = [cache EXCEPT
                    !.mutations = (@ \ {m}) \cup {[m EXCEPT !.phase = phase]}]
  /\ UNCHANGED <<accounts, categories, transactions, idCounter, importer,
               sessions>>

\* onError: the rollback
onError(id) ==
  /\ \E o \in cache.mutations : o.id = id /\ o.phase = "failed"
  /\ LET m == CHOOSE o \in cache.mutations : o.id = id
     IN cache' = [cache EXCEPT
                    !.queries = setQueryData(@, HookKey(m.hook), m.context),
                    !.mutations = (@ \ {m}) \cup {[m EXCEPT !.phase = "erred"]}]
  /\ UNCHANGED <<accounts, categories, transactions, idCounter, request, response, importer,
               sessions>>

\* onSettled: invalidateQueries, which cancels the fetch under way of a
\* query it matches and fetches again
onSettled(id) ==
  /\ \E o \in cache.mutations : o.id = id /\ o.phase \in {"erred", "succeeded"}
  /\ LET m == CHOOSE o \in cache.mutations : o.id = id
     IN cache' = [cache EXCEPT
                    !.queries = invalidateQueries(@, HookKey(m.hook)),
                    !.mutations = @ \ {m},
                    !.cancelled = @ \/ FetchMatches(HookKey(m.hook))]
  /\ UNCHANGED <<accounts, categories, transactions, idCounter, request, response, importer,
               sessions>>

\* queryFn of a list query that has no data or is invalidated
QuerySend(userId, key) ==
  /\ key \in ListKeys
  /\ IsNull(cache.queries[key].data) \/ cache.queries[key].isInvalidated
  /\ IF key[1] = "accounts" THEN GetAccounts(userId)
     ELSE IF key[1] = "categories" THEN GetCategories(userId)
     ELSE GetTransactions(userId, Null, Null, "", 0)

\* queryFn returns or throws; the answer of a cancelled fetch is dropped
QueryReceive ==
  /\ request.route \in ListRoutes
  /\ request' = NoRequest
  /\ response' = NoResponse
  /\ cache' =
       IF cache.cancelled THEN [cache EXCEPT !.cancelled = FALSE]
       ELSE IF response.status = 200
       THEN [cache EXCEPT !.queries[ListKeyOf(request.route)] =
                           [data |-> Some(response.data), isInvalidated |-> FALSE]]
       ELSE cache
  /\ UNCHANGED <<accounts, categories, transactions, idCounter, importer,
               sessions>>

----------------------------------------------------------------------------
(* Concurrent sessions *)
(* Each session has at most one call under way. A handler of categories.ts *)
(* awaits one statement, which the database runs atomically: the call of a *)
(* session is sent, then handled at the time of its statement, then        *)
(* returned, and the steps of the sessions interleave.                     *)

Sessions == 1..MaxSessions

IdleSession(calls) ==
  [pc |-> "idle", route |-> "none", id |-> "", name |-> "", response |-> NoResponse,
   calls |-> calls]

\* the browser of session s sends a request
SessionSend(s, route, id, name) ==
  /\ sessions[s].pc = "idle"
  /\ sessions[s].calls < MaxCalls
  /\ sessions' = [sessions EXCEPT ![s] =
                    [pc |-> "sent", route |-> route, id |-> id, name |-> name,
                     response |-> NoResponse, calls |-> @.calls + 1]]
  /\ UNCHANGED <<accounts, categories, transactions, idCounter, request, response,
                 importer, cache>>

\* PATCH /categories/:id handles the request of session s
SessionPatch(s, userId) ==
  /\ sessions[s].pc = "sent"
  /\ sessions[s].route = "PATCH /categories/:id"
  /\ LET id == sessions[s].id
         matched == OneWhere(categories, userId, id)
         updated == {[c EXCEPT !.name = sessions[s].name] : c \in matched}
         answer == IF ~Truthy(id) THEN MissingId
                   ELSE IF ~Truthy(userId) THEN Unauthorized
                   ELSE IF updated = {} THEN NotFound
                   ELSE [status |-> 200, data |-> CHOOSE x \in updated : TRUE]
     IN /\ categories' = IF Truthy(id) /\ Truthy(userId)
                         THEN (categories \ matched) \cup updated ELSE categories
        /\ sessions' = [sessions EXCEPT ![s].pc = "answered", ![s].response = answer]
  /\ UNCHANGED <<accounts, transactions, idCounter, request, response, importer, cache>>

\* DELETE /categories/:id handles the request of session s
SessionDelete(s, userId) ==
  /\ sessions[s].pc = "sent"
  /\ sessions[s].route = "DELETE /categories/:id"
  /\ LET id == sessions[s].id
         deleted == IF Truthy(id) /\ Truthy(userId)
                    THEN OneWhere(categories, userId, id) ELSE {}
         answer == IF ~Truthy(id) THEN MissingId
                   ELSE IF ~Truthy(userId) THEN Unauthorized
                   ELSE IF deleted = {} THEN NotFound
                   ELSE [status |-> 200, data |-> [id |-> id]]
     IN /\ categories' = categories \ deleted
        /\ transactions' = SetNullCategory(transactions, {c.id : c \in deleted})
        /\ sessions' = [sessions EXCEPT ![s].pc = "answered", ![s].response = answer]
  /\ UNCHANGED <<accounts, idCounter, request, response, importer, cache>>

\* the answer reaches the browser of session s
SessionReturn(s) ==
  /\ sessions[s].pc = "answered"
  /\ sessions' = [sessions EXCEPT ![s] = IdleSession(@.calls)]
  /\ UNCHANGED <<accounts, categories, transactions, idCounter, request, response,
                 importer, cache>>

----------------------------------------------------------------------------
(* Stores of the specifications                                            *)
(* The summary handler never reads a transaction id, so the transaction    *)
(* tables are enumerated up to renaming of ids: row i carries id i and     *)
(* the rows are listed in a fixed order of their contents.                 *)

\* the non-decreasing sequences of n indices in lo..hi
RECURSIVE SortedIdx(_, _, _)
SortedIdx(n, lo, hi) ==
  IF n = 0 THEN {<<>>}
  ELSE UNION {{<<k>> \o s : s \in SortedIdx(n - 1, k, hi)} : k \in lo..hi}

UpTo(n, hi) == UNION {SortedIdx(m, 0, hi) : m \in 0..n}

\* the contents of the rows of a family: dom gives the values of each column
DomSize(dom) ==
  Len(dom.amounts) * Len(dom.accountIds) * Len(dom.dates) * Len(dom.categoryIds)

RowOf(dom, i, k) ==
  LET na == Len(dom.amounts)
      nc == Len(dom.accountIds)
      nd == Len(dom.dates)
  IN [id |-> i,
      amount |-> dom.amounts[(k % na) + 1],
      accountId |-> dom.accountIds[((k \div na) % nc) + 1],
      date |-> dom.dates[((k \div (na * nc)) % nd) + 1],
      categoryId |-> dom.categoryIds[(k \div (na * nc * nd)) + 1]]

StoreOf(dom, s) == {RowOf(dom, i, s[i]) : i \in 1..Len(s)}

MaybeOf(S) == {Null} \cup {Some(x) : x \in S}

SummaryAccounts ==
  {[id |-> "a1", name |-> "Checking", userId |-> UserA],
   [id |-> "a2", name |-> "Savings", userId |-> UserA],
   [id |-> "b1", name |-> "Checking", userId |-> UserB]}

\* The summary specification: transactions of both users at any tick of the
\* first days, and every choice of caller, from, to and accountId.
SummaryDom ==
  [amounts |-> <<-2, 1, 3>>,
   accountIds |-> <<"a1", "a2", "b1">>,
   dates |-> [i \in 1..(MaxInstant + 1) |-> i - 1],
   categoryIds |-> <<Null>>]
SummaryIndices == UpTo(MaxTx, DomSize(SummaryDom) - 1)
SummaryDays == 0..(MaxInstant \div TicksPerDay)

InitSummary ==
  /\ accounts = SummaryAccounts
  /\ categories = {}
  /\ \E s \in SummaryIndices : transactions = StoreOf(SummaryDom, s)
  /\ idCounter = 0
  /\ request = NoRequest
  /\ response = NoResponse
  /\ importer = NoImporter
  /\ cache = NoCache
  /\ sessions = NoSessions

NextSummary ==
  \/ Return
  \/ \E userId \in Users \cup {NoUser}, from \in MaybeOf(SummaryDays), to \in MaybeOf(SummaryDays),
        accountId \in {""} \cup {a.id : a \in SummaryAccounts} :
       GetSummary(userId, from, to, accountId, MaxInstant)

SpecSummary == InitSummary /\ [][NextSummary]_vars

\* The period specification: one transaction of user A anywhere from before
\* the previous default window to after now, and every choice of from / to.
PeriodInstants == SubDays(0, 2 * DefaultDays + 2)..AddDays(0, 1)
PeriodDays == (-MaxWindow)..0
PeriodNows == 0..(TicksPerDay - 1)

InitPeriod ==
  /\ accounts = SummaryAccounts
  /\ categories = {}
  /\ \E date \in PeriodInstants :
       transactions = {[id |-> 1, amount |-> 1, accountId |-> "a1", date |-> date,
                        categoryId |-> Null]}
  /\ idCounter = 0
  /\ request = NoRequest
  /\ response = NoResponse
  /\ importer = NoImporter
  /\ cache = NoCache
  /\ sessions = NoSessions

NextPeriod ==
  \/ Return
  \/ \E from \in MaybeOf(PeriodDays), to \in MaybeOf(PeriodDays), now \in PeriodNows :
       GetSummary(UserA, from, to, "", now)

SpecPeriod == InitPeriod /\ [][NextPeriod]_vars

\* The breakdown specification: user A's transactions of one day, either
\* expenses over more category groups than the query returns (ranking) or
\* expenses, income and zero amounts over fewer groups (mixed).
BreakdownCategories ==
  {[id |-> "c1", name |-> "Food", userId |-> UserA],
   [id |-> "c2", name |-> "Rent", userId |-> UserA],
   [id |-> "c3", name |-> "Travel", userId |-> UserA],
   [id |-> "c4", name |-> "Bills", userId |-> UserA]}

RankingDom ==
  [amounts |-> <<-2, -1>>,
   accountIds |-> <<"a1">>,
   dates |-> <<0>>,
   categoryIds |-> <<Null, Some("c1"), Some("c2"), Some("c3"), Some("c4")>>]
RankingIndices == UpTo(MaxRankingTx, DomSize(RankingDom) - 1)

MixedDom ==
  [amounts |-> <<-2, -1, 0, 1>>,
   accountIds |-> <<"a1">>,
   dates |-> <<0>>,
   categoryIds |-> <<Null, Some("c1"), Some("c2")>>]
MixedIndices == UpTo(MaxMixedTx, DomSize(MixedDom) - 1)

InitBreakdown ==
  /\ accounts = SummaryAccounts
  /\ categories = BreakdownCategories
  /\ \/ \E s \in RankingIndices : transactions = StoreOf(RankingDom, s)
     \/ \E s \in MixedIndices : transactions = StoreOf(MixedDom, s)
  /\ idCounter = 0
  /\ request = NoRequest
  /\ response = NoResponse
  /\ importer = NoImporter
  /\ cache = NoCache
  /\ sessions = NoSessions

NextBreakdown ==
  \/ Return
  \/ \E accountId \in {"", "a1"} : GetSummary(UserA, Null, Null, accountId, 0)

SpecBreakdown == InitBreakdown /\ [][NextBreakdown]_vars

\* The categories specification: a category and a transaction in it for
\* each user to begin with, and every request of the categories router.
CategoryNames == {"Food", "Rent"}
CategoryRequestIds == {""} \cup {CategoryIdPool[i] : i \in 1..MaxCategoryIds}

InitCategories ==
  /\ accounts = SummaryAccounts
  /\ categories = {[id |-> "c1", name |-> "Food", userId |-> UserA],
                   [id |-> "c2", name |-> "Food", userId |-> UserB]}
  /\ transactions =
       {[id |-> 1, amount |-> -2, accountId |-> "a1", date |-> 0, categoryId |-> Some("c1")],
        [id |-> 2, amount |-> -1, accountId |-> "b1", date |-> 0, categoryId |-> Some("c2")]}
  /\ idCounter = 2
  /\ request = NoRequest
  /\ response = NoResponse
  /\ importer = NoImporter
  /\ cache = NoCache
  /\ sessions = NoSessions

NextCategories ==
  \/ Return
  \/ \E userId \in Users \cup {NoUser} : GetCategories(userId)
  \/ \E userId \in Users \cup {NoUser}, id \in CategoryRequestIds : GetCategory(userId, id)
  \/ \E userId \in Users \cup {NoUser}, name \in CategoryNames : CreateCategory(userId, name)
  \/ \E userId \in Users \cup {NoUser}, ids \in SUBSET (CategoryRequestIds \ {""}) :
       BulkDeleteCategories(userId, ids)
  \/ \E userId \in Users \cup {NoUser}, id \in CategoryRequestIds, name \in CategoryNames :
       PatchCategory(userId, id, name)
  \/ \E userId \in Users \cup {NoUser}, id \in CategoryRequestIds : DeleteCategory(userId, id)

SpecCategories == InitCategories /\ [][NextCategories]_vars

\* The transactions specification: a transaction of each user in a category
\* of its owner to begin with, and every request of the transactions router
\* and of the summary by user A or by nobody. Values name an account of A,
\* of B or of nobody and a category of A, of B, of nobody or none.
TxAccountIds == {"a1", "a2", "b1", "zz"}
TxCategoryIds == {Null, Some("c1"), Some("c2"), Some("c9")}
TxValues ==
  [amount : {-1}, accountId : TxAccountIds, date : {0}, categoryId : TxCategoryIds,
   payee : {"Shop"}]
BulkValues ==
  [amount : {-1}, accountId : {"a1", "b1"}, date : {0}, categoryId : {Null, Some("c9")},
   payee : {"Shop"}]
TxRequestIds == {"ta", "tb"} \cup {TransactionIdPool[i] : i \in 1..MaxTransactionIds}
TxSegments == TxRequestIds \cup {"bulk-delete"}
Callers == {UserA, NoUser}

\* the sequences of at most n elements of S
RECURSIVE SeqUpTo(_, _)
SeqUpTo(S, n) ==
  IF n = 0 THEN {<<>>}
  ELSE SeqUpTo(S, n - 1) \cup {Append(s, x) : s \in {q \in SeqUpTo(S, n - 1) : Len(q) = n - 1}, x \in S}

InitTransactions ==
  /\ accounts = SummaryAccounts
  /\ categories = {[id |-> "c1", name |-> "Food", userId |-> UserA],
                   [id |-> "c2", name |-> "Rent", userId |-> UserB]}
  /\ transactions =
       {[id |-> "ta", amount |-> -2, accountId |-> "a1", date |-> 0,
         categoryId |-> Some("c1"), payee |-> "Cafe"],
        [id |-> "tb", amount |-> -3, accountId |-> "b1", date |-> 0,
         categoryId |-> Some("c2"), payee |-> "Landlord"]}
  /\ idCounter = 0
  /\ request = NoRequest
  /\ response = NoResponse
  /\ importer = NoImporter
  /\ cache = NoCache
  /\ sessions = NoSessions

NextTransactions ==
  \/ Return
  \/ \E userId \in Callers : GetSummary(userId, Null, Null, "", 0)
  \/ \E userId \in Callers, accountId \in {"", "a1"} :
       GetTransactions(userId, Null, Null, accountId, 0)
  \/ \E userId \in Callers, id \in TxRequestIds : GetTransaction(userId, id)
  \/ \E userId \in Callers, values \in TxValues : CreateTransaction(userId, values)
  \/ \E userId \in Callers, values \in SeqUpTo(BulkValues, MaxBulkRows) :
       BulkCreateTransactions(userId, values)
  \/ \E userId \in Callers, id \in TxRequestIds, values \in TxValues :
       PatchTransaction(userId, id, values)
  \/ \E userId \in Callers, segment \in TxSegments, ids \in {{"ta", "tb"}} :
       DeleteTransactions(userId, segment, ids)

SpecTransactions == InitTransactions /\ [][NextTransactions]_vars

\* The accounts specification: an account of each user, transactions in
\* them with and without a category, and every request of the accounts
\* router, the deletion of categories and the creation of transactions.
AccountNames == {"Cash"}
AccountRequestIds == {"a1", "b1"} \cup {AccountIdPool[i] : i \in 1..MaxAccountIds}
AccountSegments == AccountRequestIds \cup {"bulk-delete"}
AccountValues ==
  [amount : {-1}, accountId : {"a1", "b1"}, date : {0},
   categoryId : {Null, Some("c1"), Some("c2")}, payee : {"Shop"}]

InitAccounts ==
  /\ accounts = {[id |-> "a1", name |-> "Checking", userId |-> UserA],
                 [id |-> "b1", name |-> "Checking", userId |-> UserB]}
  /\ categories = {[id |-> "c1", name |-> "Food", userId |-> UserA],
                   [id |-> "c2", name |-> "Rent", userId |-> UserB]}
  /\ transactions =
       {[id |-> "ta", amount |-> -2, accountId |-> "a1", date |-> 0,
         categoryId |-> Some("c1"), payee |-> "Cafe"],
        [id |-> "tc", amount |-> 5, accountId |-> "a1", date |-> 0,
         categoryId |-> Null, payee |-> "Employer"],
        [id |-> "tb", amount |-> -3, accountId |-> "b1", date |-> 0,
         categoryId |-> Some("c2"), payee |-> "Landlord"]}
  /\ idCounter = 0
  /\ request = NoRequest
  /\ response = NoResponse
  /\ importer = NoImporter
  /\ cache = NoCache
  /\ sessions = NoSessions

NextAccounts ==
  \/ Return
  \/ \E userId \in Users : GetAccounts(userId)
  \/ \E userId \in Users, name \in AccountNames : CreateAccount(userId, name)
  \/ \E userId \in Users, id \in AccountRequestIds : GetAccount(userId, id)
  \/ \E userId \in Users, id \in AccountRequestIds, name \in AccountNames :
       PatchAccount(userId, id, name)
  \/ \E userId \in Users, segment \in AccountSegments, ids \in {{"a1", "b1"}} :
       DeleteAccounts(userId, segment, ids)
  \/ \E userId \in Users, id \in {"c1", "c2"} : DeleteCategory(userId, id)
  \/ \E userId \in Users : BulkDeleteCategories(userId, {"c1", "c2"})
  \/ \E userId \in Users, values \in AccountValues : CreateTransaction(userId, values)

SpecAccounts == InitAccounts /\ [][NextAccounts]_vars

\* The endpoints specification: every request of the four routers, from
\* user A and from nobody, over a small store of user A. Ids are segments
\* of a routed path and therefore not empty.
EndpointValues ==
  [amount : {-1}, accountId : {"a1"}, date : {0}, categoryId : {Null, Some("c1")},
   payee : {"Shop"}]
EndpointTransactionIds == {"ta", "t2"}
EndpointAccountIds == {"a1", "n2"}
EndpointCategoryIds == {"c1", "c2"}
\* bodies of POST /transactions before the validator: with and without an
\* amount
EndpointBodies ==
  [amount : {Null, Some(-1)}, date : {Some(0)}, payee : {"Shop"}, accountId : {"a1"}]

InitEndpoints ==
  /\ accounts = {[id |-> "a1", name |-> "Checking", userId |-> UserA]}
  /\ categories = {[id |-> "c1", name |-> "Food", userId |-> UserA]}
  /\ transactions =
       {[id |-> "ta", amount |-> -2, accountId |-> "a1", date |-> 0,
         categoryId |-> Some("c1"), payee |-> "Cafe"]}
  /\ idCounter = 1
  /\ request = NoRequest
  /\ response = NoResponse
  /\ importer = NoImporter
  /\ cache = NoCache
  /\ sessions = NoSessions

NextEndpoints ==
  \/ Return
  \/ \E userId \in Callers : GetSummary(userId, Null, Null, "", 0)
  \/ \E userId \in Callers : GetTransactions(userId, Null, Null, "", 0)
  \/ \E userId \in Callers, id \in EndpointTransactionIds : GetTransaction(userId, id)
  \/ \E userId \in Callers, values \in EndpointValues : CreateTransaction(userId, values)
  \/ \E userId \in Callers, json \in EndpointBodies : PostTransaction(userId, json)
  \/ \E userId \in Callers, values \in SeqUpTo(EndpointValues, 1) :
       BulkCreateTransactions(userId, values)
  \/ \E userId \in Callers, id \in EndpointTransactionIds, values \in EndpointValues :
       PatchTransaction(userId, id, values)
  \/ \E userId \in Callers, segment \in EndpointTransactionIds \cup {"bulk-delete"} :
       DeleteTransactions(userId, segment, EndpointTransactionIds)
  \/ \E userId \in Callers : GetAccounts(userId)
  \/ \E userId \in Callers : CreateAccount(userId, "Cash")
  \/ \E userId \in Callers, id \in EndpointAccountIds : GetAccount(userId, id)
  \/ \E userId \in Callers, id \in EndpointAccountIds : PatchAccount(userId, id, "Cash")
  \/ \E userId \in Callers, segment \in EndpointAccountIds \cup {"bulk-delete"} :
       DeleteAccounts(userId, segment, EndpointAccountIds)
  \/ \E userId \in Callers : GetCategories(userId)
  \/ \E userId \in Callers, id \in EndpointCategoryIds : GetCategory(userId, id)
  \/ \E userId \in Callers : CreateCategory(userId, "Rent")
  \/ \E userId \in Callers : BulkDeleteCategories(userId, EndpointCategoryIds)
  \/ \E userId \in Callers, id \in EndpointCategoryIds : PatchCategory(userId, id, "Rent")
  \/ \E userId \in Callers, id \in EndpointCategoryIds : DeleteCategory(userId, id)

SpecEndpoints == InitEndpoints /\ [][NextEndpoints]_vars

\* The import table specification: a CSV of three columns and up to
\* MaxImportRows rows, whose dates are written with and without a time and
\* whose amounts are decimals or no number, every selection of the columns,
\* and the click on Continue that builds the payloads and starts the import,
\* where this specification ends.
Word(w) == <<w>>
ImportHeader == <<Word("Date"), Word("Amount"), Word("Payee")>>
DateOnly == <<"2", "0", "2", "4", "-", "0", "1", "-", "0", "1">>
DateAndTime ==
  <<"2", "0", "2", "4", "-", "0", "1", "-", "0", "2", " ", "1", "2", ":", "0", "0", ":", "0", "0">>
ImportRows ==
  {<<DateOnly, <<"2", "5", ".", "5", "0">>, Word("Coffee Shop")>>,
   <<DateOnly, <<"-", "1", "0", "0", ".", "0", "0">>, Word("Grocery Store")>>,
   <<DateAndTime, <<"-", "1", "0", "0", ".", "0", "0">>, Word("Grocery Store")>>,
   <<DateAndTime, <<"2", "5", ".", "5", "0">>, Word("Coffee Shop")>>,
   <<DateAndTime, Word("n/a"), Word("Grocery Store")>>}
ImportCsvs == {<<ImportHeader>> \o body : body \in SeqUpTo(ImportRows, MaxImportRows)}
ImportFields == {"skip"} \cup Range(requiredOptions) \cup Range(optionalOptions)
InitImportTable ==
  /\ accounts = {[id |-> "a1", name |-> "Checking", userId |-> UserA]}
  /\ categories = {}
  /\ transactions = {}
  /\ idCounter = 0
  /\ request = NoRequest
  /\ response = NoResponse
  /\ importer = ImportCardInit
  /\ cache = NoCache
  /\ sessions = NoSessions

\* a click on Cancel before an import is started
CancelMapping == ~importer.isImporting /\ onCancelImport

NextImportTable ==
  \/ \E csv \in ImportCsvs : onUpload(csv)
  \/ \E columnIndex \in 1..Len(ImportHeader), value \in ImportFields :
       SelectColumn(columnIndex, value)
  \/ CancelMapping
  \/ handleContinue

SpecImportTable == InitImportTable /\ [][NextImportTable]_vars

\* The import specification: an uploaded CSV whose columns are selected as
\* its header names them, and the import by a user whose session may have
\* ended, again after a failure.
StraightColumns == <<Some("date"), Some("amount"), Some("payee")>>

InitImport ==
  /\ accounts = {[id |-> "a1", name |-> "Checking", userId |-> UserA]}
  /\ categories = {}
  /\ transactions = {}
  /\ idCounter = 0
  /\ request = NoRequest
  /\ response = NoResponse
  /\ \E csv \in ImportCsvs :
       importer = [ImportCardInit EXCEPT !.data = csv, !.selectedColumns = StraightColumns]
  /\ cache = NoCache
  /\ sessions = NoSessions

NextImport ==
  \/ onCancelImport
  \/ handleContinue
  \/ \E userId \in Callers : ImportSend(userId)
  \/ ImportReceive

SpecImport == InitImport /\ [][NextImport]_vars

\* The optimistic specification: a page whose list queries are mounted, and
\* up to MaxMutations optimistic mutations of a user whose session may have
\* ended, each with its request, its callbacks and the fetches of the list
\* queries in any order.
HookVariables(hook) ==
  IF hook = "updateAccount" THEN [id |-> "a1", name |-> "Savings"]
  ELSE IF hook = "useCreateCategory" THEN [name |-> "Rent"]
  ELSE [amount |-> Some(-1), date |-> Some(0), payee |-> "Shop", accountId |-> "a1"]

InitOptimistic ==
  /\ accounts = {[id |-> "a1", name |-> "Checking", userId |-> UserA]}
  /\ categories = {[id |-> "c1", name |-> "Food", userId |-> UserA]}
  /\ transactions = {}
  /\ idCounter = 1
  /\ request = NoRequest
  /\ response = NoResponse
  /\ importer = NoImporter
  /\ cache = QueryClientInit
  /\ sessions = NoSessions

NextOptimistic ==
  \/ \E hook \in Hooks : onMutate(hook, HookVariables(hook))
  \/ \E userId \in Callers : MutationSend(userId)
  \/ MutationReceive
  \/ \E id \in 1..MaxMutations : onError(id)
  \/ \E id \in 1..MaxMutations : onSettled(id)
  \/ \E userId \in Callers, key \in ListKeys : QuerySend(userId, key)
  \/ QueryReceive

SpecOptimistic == InitOptimistic /\ [][NextOptimistic]_vars

\* The sessions specification: MaxSessions sessions of user A, each with up
\* to MaxCalls calls that rename or delete a category of A or name a
\* category of B, over a store in which A owns two categories.
SessionNames == {"Rent", "Travel"}
SessionCategoryIds == {"c1", "c2"}

InitSessions ==
  /\ accounts = SummaryAccounts
  /\ categories = {[id |-> "c1", name |-> "Food", userId |-> UserA],
                   [id |-> "c2", name |-> "Food", userId |-> UserB],
                   [id |-> "c3", name |-> "Fun", userId |-> UserA]}
  /\ transactions =
       {[id |-> "ta", amount |-> -2, accountId |-> "a1", date |-> 0,
         categoryId |-> Some("c1"), payee |-> "Cafe"]}
  /\ idCounter = 3
  /\ request = NoRequest
  /\ response = NoResponse
  /\ importer = NoImporter
  /\ cache = NoCache
  /\ sessions = [s \in Sessions |-> IdleSession(0)]

NextSessions ==
  \/ \E s \in Sessions, id \in SessionCategoryIds, name \in SessionNames :
       SessionSend(s, "PATCH /categories/:id", id, name)
  \/ \E s \in Sessions, id \in SessionCategoryIds :
       SessionSend(s, "DELETE /categories/:id", id, "")
  \/ \E s \in Sessions : SessionPatch(s, UserA)
  \/ \E s \in Sessions : SessionDelete(s, UserA)
  \/ \E s \in Sessions : SessionReturn(s)

SpecSessions == InitSessions /\ [][NextSessions]_vars

\* The deletion specification: user A's six categories, two of them with
\* the same name, one expense of today in each (of 1 or 2 in three of them,
\* of 1 in the others) and an income in c2, so that
\* the breakdown has more groups than it returns once a category is
\* deleted; any deletions, and summaries in between.
DeletionCategories ==
  {[id |-> "c1", name |-> "Food", userId |-> UserA],
   [id |-> "c2", name |-> "Rent", userId |-> UserA],
   [id |-> "c3", name |-> "Travel", userId |-> UserA],
   [id |-> "c4", name |-> "Bills", userId |-> UserA],
   [id |-> "c5", name |-> "Fun", userId |-> UserA],
   [id |-> "c6", name |-> "Rent", userId |-> UserA]}
DeletionCategoryIds == {c.id : c \in DeletionCategories}

InitDeletion ==
  /\ accounts = SummaryAccounts
  /\ categories = DeletionCategories
  /\ \E amount \in [DeletionCategoryIds -> {-2, -1}] :
       /\ \A c \in {"c3", "c4", "c5"} : amount[c] = -1
       /\ transactions =
            {[id |-> c, amount |-> amount[c], accountId |-> "a1", date |-> 0,
              categoryId |-> Some(c)] : c \in DeletionCategoryIds}
            \cup {[id |-> "income", amount |-> 3, accountId |-> "a1", date |-> 0,
                   categoryId |-> Some("c2")]}
  /\ idCounter = 6
  /\ request = NoRequest
  /\ response = NoResponse
  /\ importer = NoImporter
  /\ cache = NoCache
  /\ sessions = NoSessions

NextDeletion ==
  \/ Return
  \/ GetSummary(UserA, Null, Null, "", 0)
  \/ \E id \in DeletionCategoryIds : DeleteCategory(UserA, id)

SpecDeletion == InitDeletion /\ [][NextDeletion]_vars

----------------------------------------------------------------------------
(* Vocabulary of the properties of GET /summary *)

\* a summary request was answered with a body
Summarised == request.route = "GET /summary" /\ response.status = 200

ReqStart == StartDate(request.from, request.now)
ReqEnd == EndDate(request.to, request.now)

\* the owner of an account id, Null when no such account exists
OwnerOf(accountId) ==
  IF \E a \in accounts : a.id = accountId
  THEN Some((CHOOSE a \in accounts : a.id = accountId).userId)
  ELSE Null

\* the transactions of the accounts owned by a user
OwnedBy(userId) == {t \in transactions : OwnerOf(t.accountId) = Some(userId)}

\* the caller's transactions the request selects (its account filter applied)
CallerRows ==
  {t \in OwnedBy(request.userId) : Truthy(request.accountId) => t.accountId = request.accountId}

InWindow(rows, lo, hi) == {t \in rows : lo <= t.date /\ t.date <= hi}

SumPositive(rows) == SumRows(rows, [t \in rows |-> IF t.amount > 0 THEN t.amount ELSE 0])
SumAbsNegative(rows) == SumRows(rows, [t \in rows |-> IF t.amount < 0 THEN -t.amount ELSE 0])

----------------------------------------------------------------------------
\* C1: every figure of a summary answered to user A is computed only from
\* transactions whose account A owns: the answer is one the handler gives on
\* the store without the other users' transactions, and with an accountId of
\* another user's account the totals are null and both lists are empty.
C1_SummaryOnlyOwnTransactions ==
  Summarised =>
    /\ response.data \in SummaryData(OwnedBy(request.userId), accounts, categories,
                           request.userId, request.from, request.to,
                           request.accountId, request.now)
    /\ (Truthy(request.accountId) /\ OwnerOf(request.accountId) # Some(request.userId)) =>
          /\ IsNull(response.data.incomeAmount)
          /\ IsNull(response.data.expensesAmount)
          /\ IsNull(response.data.remainingAmount)
          /\ response.data.days = <<>>
          /\ response.data.categories = <<>>

\* user A asks for user B's account, which has an expense inside the window
C1_Witness ==
  /\ Summarised
  /\ request.userId = UserA
  /\ request.accountId = "b1"
  /\ \E t \in InWindow(transactions, ReqStart, ReqEnd) : t.accountId = "b1" /\ t.amount < 0
  /\ IsNull(response.data.expensesAmount)
  /\ response.data.categories = <<>>

\* C2 (as claimed): income is the sum of the positive amounts, expenses the
\* sum of the absolute values of the negative amounts, remaining is income
\* minus expenses, over the caller's transactions inside the window (a null
\* total, reported when the window is empty, is read as 0).
C2_TotalsAsClaimed ==
  Summarised =>
    LET rows == InWindow(CallerRows, ReqStart, ReqEnd)
    IN /\ ToNumber(response.data.incomeAmount) = SumPositive(rows)
       /\ ToNumber(response.data.expensesAmount) = SumAbsNegative(rows)
       /\ ToNumber(response.data.expensesAmount) >= 0
       /\ ToNumber(response.data.remainingAmount) =
            ToNumber(response.data.incomeAmount) - ToNumber(response.data.expensesAmount)

\* C3: each of the three changes is calculatePercentageChange of the current
\* and the previous total: 0 when both are 0, 100 when the previous is 0 and
\* the current is not, and otherwise (current - previous) / previous * 100.
PercentageAsClaimed(result, current, previous) ==
  /\ (previous = Some(0) /\ current = Some(0)) => result = Rat(0, 1)
  /\ (previous = Some(0) /\ current # Some(0)) => result = Rat(100, 1)
  /\ (previous # Some(0) /\ ToNumber(previous) # 0) =>
        /\ result.kind = "num"
        /\ result.n * ToNumber(previous) =
             (ToNumber(current) - ToNumber(previous)) * 100 * result.d
  /\ (previous # Some(0) /\ ToNumber(previous) = 0) => result.kind # "num"

C3_PercentageChange ==
  Summarised =>
    LET current == fetchFinancialData(transactions, accounts, request.userId,
                     request.accountId, ReqStart, ReqEnd)
        previous == fetchFinancialData(transactions, accounts, request.userId,
                      request.accountId, LastPeriodStart(ReqStart, ReqEnd),
                      LastPeriodEnd(ReqStart, ReqEnd))
    IN /\ PercentageAsClaimed(response.data.incomeChange, current.income, previous.income)
       /\ PercentageAsClaimed(response.data.expensesChange, current.expenses, previous.expenses)
       /\ PercentageAsClaimed(response.data.remainingChange, current.remaining, previous.remaining)

\* income rose from 1 to 3 (+200%) while the previous expenses were 0
C3_Witness ==
  /\ Summarised
  /\ response.data.incomeChange = Rat(200, 1)
  /\ response.data.incomeAmount = Some(3)
  /\ response.data.expensesChange \in {Rat(0, 1), Rat(100, 1)}

\* C5 (as claimed): for an explicit window [from, to] of N days, from <= to,
\* the daily series has exactly N entries, one per calendar date of the
\* window in ascending order, and a date without transactions reports
\* income 0 and expenses 0.
ExplicitWindow ==
  /\ Summarised
  /\ ~IsNull(request.from)
  /\ ~IsNull(request.to)
  /\ Val(request.from) <= Val(request.to)

SeriesCoversWindow(days) ==
  /\ Len(days) = Val(request.to) - Val(request.from) + 1
  /\ \A i \in 1..Len(days) :
       /\ days[i].date = Val(request.from) + i - 1
       /\ (\A t \in CallerRows : Format(t.date) # days[i].date) =>
             (days[i].income = 0 /\ days[i].expenses = 0)

C6_DailyEntriesAsClaimed ==
  (Summarised /\ ReqStart <= ReqEnd) =>
    \A i \in 1..Len(response.data.days) :
      LET onDate == {t \in CallerRows : Format(t.date) = response.data.days[i].date}
      IN /\ response.data.days[i].income = SumPositive(onDate)
         /\ response.data.days[i].expenses = SumAbsNegative(onDate)

\* C4 (as claimed): the previous window is as long as the current one and
\* the two are contiguous and disjoint: every transaction of the caller
\* dated from the previous window's start to the current window's end is
\* counted in exactly one of the two windows.
C4_WindowsPartitionAsClaimed ==
  (Summarised /\ ReqStart <= ReqEnd) =>
    LET lastStart == LastPeriodStart(ReqStart, ReqEnd)
        lastEnd == LastPeriodEnd(ReqStart, ReqEnd)
        current == FinancialWhere(transactions, accounts, request.userId,
                     request.accountId, ReqStart, ReqEnd)
        previous == FinancialWhere(transactions, accounts, request.userId,
                      request.accountId, lastStart, lastEnd)
    IN /\ lastEnd - lastStart = ReqEnd - ReqStart
       /\ current \cap previous = {}
       /\ \A t \in InWindow(CallerRows, lastStart, ReqEnd) : t \in current \cup previous

\* the category name a transaction is grouped under, Null without category
NameKey(t) ==
  IF IsNull(t.categoryId) THEN Null
  ELSE IF \E c \in categories : c.id = Val(t.categoryId)
       THEN Some((CHOOSE c \in categories : c.id = Val(t.categoryId)).name)
       ELSE Null

\* the caller's expenses inside the window, and their category groups
ExpenseRows == {t \in InWindow(CallerRows, ReqStart, ReqEnd) : t.amount < 0}
ExpenseKeys == {NameKey(t) : t \in ExpenseRows}
ExpenseTotal(key) == SumAbsNegative({t \in ExpenseRows : NameKey(t) = key})

\* C7: the category breakdown has at most 4 entries, in descending order of
\* total, and no omitted category group has a larger total than an included
\* one: the groups above an included total are all included.
C7_TopFourCategories ==
  Summarised =>
    LET cs == response.data.categories
    IN /\ Len(cs) <= 4
       /\ \A i, j \in 1..Len(cs) : i < j => cs[i].value >= cs[j].value
       /\ \A i \in 1..Len(cs) :
            Cardinality({k \in ExpenseKeys : ExpenseTotal(k) > cs[i].value})
              = Cardinality({j \in 1..Len(cs) : cs[j].value > cs[i].value})

\* five category groups, and the one left out is smaller than the last kept
C7_Witness ==
  /\ Summarised
  /\ Cardinality(ExpenseKeys) = 5
  /\ Len(response.data.categories) = 4
  /\ \E k \in ExpenseKeys : ExpenseTotal(k) < response.data.categories[4].value

----------------------------------------------------------------------------
(* Properties of the categories router *)

Authenticated == request # NoRequest /\ Truthy(request.userId)

\* C9: GET /categories answers user A with exactly the categories whose
\* userId is A, and GET /categories/:id for an id the caller does not own,
\* whether it exists or not, answers 404 "Not found.", never the record and
\* never 403.
C9_CategoryReadsAreScoped ==
  /\ (Authenticated /\ request.route = "GET /categories") =>
        /\ response.status = 200
        /\ response.data =
             {[id |-> c.id, name |-> c.name] : c \in {x \in categories : x.userId = request.userId}}
  /\ (Authenticated /\ request.route = "GET /categories/:id" /\ Truthy(request.id)) =>
        IF \E c \in categories : c.id = request.id /\ c.userId = request.userId
        THEN /\ response.status = 200
             /\ response.data.id = request.id
             /\ \E c \in categories : /\ c.id = request.id
                                      /\ c.userId = request.userId
                                      /\ c.name = response.data.name
        ELSE response = [status |-> 404, error |-> "Not found."]

\* user A asks for the category of user B, which exists, and gets 404
C9_Witness ==
  /\ request.route = "GET /categories/:id"
  /\ request.userId = UserA
  /\ \E c \in categories : c.id = request.id /\ c.userId = UserB
  /\ response.status = 404

\* C10: PATCH, DELETE and bulk-delete by user A leave every category of
\* another user as it was; a single-id request for a foreign id answers 404
\* and changes no category; bulk-delete removes exactly the listed ids that
\* A owns, returns exactly those ids and leaves every other category as it
\* was.
C10_Step ==
  (request = NoRequest /\ request' # NoRequest /\ Truthy(request'.userId)
     /\ request'.route \in {"PATCH /categories/:id", "DELETE /categories/:id",
                            "POST /categories/bulk-delete"}) =>
    /\ \A c \in categories : c.userId # request'.userId => c \in categories'
    /\ \A c \in categories' : c.userId # request'.userId => c \in categories
    /\ (request'.route \in {"PATCH /categories/:id", "DELETE /categories/:id"}
          /\ \E c \in categories : c.id = request'.id /\ c.userId # request'.userId) =>
         /\ response'.status = 404
         /\ categories' = categories
    /\ request'.route = "POST /categories/bulk-delete" =>
         LET own == {c \in categories : c.userId = request'.userId /\ c.id \in request'.ids}
         IN /\ categories' = categories \ own
            /\ response'.status = 200
            /\ response'.data = {[id |-> c.id] : c \in own}

C10_WritesAreScoped == [][C10_Step]_vars

\* user A bulk-deleted a list naming A's category and B's: only A's is gone
C10_Witness ==
  /\ request.route = "POST /categories/bulk-delete"
  /\ request.userId = UserA
  /\ request.ids = {"c1", "c2"}
  /\ response.status = 200
  /\ response.data = {[id |-> "c1"]}
  /\ \E c \in categories : c.id = "c2" /\ c.userId = UserB
  /\ ~(\E c \in categories : c.id = "c1")

----------------------------------------------------------------------------
(* Vocabulary of the properties of the transactions router *)

TxMutations ==
  {"POST /transactions", "POST /transactions/bulk-create", "PATCH /transactions/:id",
   "DELETE /transactions/:id", "DELETE /transactions/bulk-delete"}

\* the step is the handling of a request of an authenticated user
Handles(routes) ==
  /\ request = NoRequest
  /\ request' # NoRequest
  /\ Truthy(request'.userId)
  /\ request'.route \in routes

\* the transactions of the accounts that a user does not own
ForeignTo(userId, txs) == {t \in txs : OwnerOf(t.accountId) # Some(userId)}

\* C11: a create, bulk-create, update, delete or bulk-delete request of
\* user A leaves every transaction A created or modified in an account
\* owned by A and creates, changes, moves and deletes no transaction of an
\* account of another user; a create or update naming an account A does not
\* own answers 400, and an update (naming an account of A) or a delete of a
\* transaction in another user's account answers 404; both change nothing.
C11_Step ==
  Handles(TxMutations) =>
    LET userId == request'.userId
        route == request'.route
    IN /\ \A t \in transactions' \ transactions : OwnerOf(t.accountId) = Some(userId)
       /\ ForeignTo(userId, transactions') = ForeignTo(userId, transactions)
       /\ (route \in {"POST /transactions", "PATCH /transactions/:id"}
             /\ OwnerOf(request'.values.accountId) # Some(userId)) =>
            /\ response'.status = 400
            /\ transactions' = transactions
       /\ (route = "POST /transactions/bulk-create"
             /\ \E i \in 1..Len(request'.values) :
                  OwnerOf(request'.values[i].accountId) # Some(userId)) =>
            /\ response'.status = 400
            /\ transactions' = transactions
       /\ (route = "PATCH /transactions/:id"
             /\ OwnerOf(request'.values.accountId) = Some(userId)
             /\ \E t \in ForeignTo(userId, transactions) : t.id = request'.id) =>
            /\ response'.status = 404
            /\ transactions' = transactions
       /\ (route = "DELETE /transactions/:id"
             /\ \E t \in ForeignTo(userId, transactions) : t.id = request'.id) =>
            /\ response'.status = 404
            /\ transactions' = transactions

OwnCategoryNames(userId) == {c.name : c \in {x \in categories : x.userId = userId}}

\* C12: every answer to a user carries, in the category field of the
\* transaction list and in the names of the summary's category breakdown,
\* only names of categories the user owns, null or "Uncategorized", also
\* after the user created or updated a transaction with another user's
\* categoryId.
C12_OnlyOwnCategoryNames ==
  /\ (Authenticated /\ request.route = "GET /transactions" /\ response.status = 200) =>
       \A i \in 1..Len(response.data) :
         \/ IsNull(response.data[i].category)
         \/ Val(response.data[i].category) \in OwnCategoryNames(request.userId)
  /\ (Authenticated /\ request.route = "GET /summary" /\ response.status = 200) =>
       \A i \in 1..Len(response.data.categories) :
         response.data.categories[i].name \in
           OwnCategoryNames(request.userId) \cup {"Uncategorized"}

----------------------------------------------------------------------------
(* Properties of the foreign keys and of the accounts router *)

AccountIds(accts) == {a.id : a \in accts}
CategoryIds(cats) == {c.id : c \in cats}

\* every reference of a transaction names a stored record
ReferencesExist ==
  \A t \in transactions :
    /\ t.accountId \in AccountIds(accounts)
    /\ IsNull(t.categoryId) \/ Val(t.categoryId) \in CategoryIds(categories)

\* a step that deletes accounts removes exactly their transactions, and a
\* step that deletes categories keeps every transaction and makes the
\* categoryId null on exactly those that named a deleted category
DeletionsPropagate ==
  LET goneAccounts == AccountIds(accounts) \ AccountIds(accounts')
      goneCategories == CategoryIds(categories) \ CategoryIds(categories')
      kept == {t \in transactions : t.accountId \notin goneAccounts}
  IN (goneAccounts # {} \/ goneCategories # {}) =>
       /\ Cardinality(transactions') = Cardinality(kept)
       /\ \A t \in kept :
            IF ~IsNull(t.categoryId) /\ Val(t.categoryId) \in goneCategories
            THEN /\ [t EXCEPT !.categoryId = Null] \in transactions'
                 /\ t \notin transactions'
            ELSE t \in transactions'

\* C14: in every reachable state each transaction's accountId names a stored
\* account and each non-null categoryId names a stored category; deleting an
\* account removes all of its transactions and no others; deleting a
\* category removes no transaction and sets categoryId to null on exactly
\* the transactions that referenced it, leaving their other fields as they
\* were.
C14_ReferencesHold == []ReferencesExist /\ [][DeletionsPropagate]_vars

\* user A deleted category c1 after user B deleted account b1: A's
\* transaction that named c1 is stored without a category, the other is as
\* it was, and B's transaction went with the account
C14_Witness ==
  /\ request.route = "DELETE /categories/:id"
  /\ request.id = "c1"
  /\ response.status = 200
  /\ "b1" \notin AccountIds(accounts)
  /\ ~(\E t \in transactions : t.accountId = "b1")
  /\ \E t \in transactions : t.id = "ta" /\ IsNull(t.categoryId) /\ t.amount = -2
  /\ \E t \in transactions : t.id = "tc" /\ t.amount = 5

----------------------------------------------------------------------------
(* Properties of POST /transactions/bulk-create *)

\* the values of a stored row, without its id
ValuesOf(t) ==
  [amount |-> t.amount, accountId |-> t.accountId, date |-> t.date,
   categoryId |-> t.categoryId, payee |-> t.payee]

\* the step stored every row of the request exactly once under a fresh id
InsertedAll ==
  LET values == request'.values
      new == transactions' \ transactions
  IN /\ transactions \subseteq transactions'
     /\ Cardinality(new) = Len(values)
     /\ Cardinality({t.id : t \in transactions'}) = Cardinality(transactions')
     /\ \A i \in 1..Len(values) :
          Cardinality({t \in new : ValuesOf(t) = values[i]}) =
            Cardinality({j \in 1..Len(values) : values[j] = values[i]})

SomeRowForeign ==
  \E i \in 1..Len(request'.values) :
    OwnerOf(request'.values[i].accountId) # Some(request'.userId)

SomeCategoryMissing ==
  \E i \in 1..Len(request'.values) :
    /\ ~IsNull(request'.values[i].categoryId)
    /\ Val(request'.values[i].categoryId) \notin CategoryIds(categories)

\* C15: bulk-create answers 400 and inserts no row when a row names an
\* account the caller does not own; otherwise every row of the request is
\* inserted exactly once with a fresh unique id.
C15_Step ==
  Handles({"POST /transactions/bulk-create"}) =>
    IF SomeRowForeign
    THEN response'.status = 400 /\ transactions' = transactions
    ELSE InsertedAll

C15_AllOrNothingAsClaimed == [][C15_Step]_vars

\* C15 as amended: when every account is the caller's but a row names a
\* category that is not stored, the insert fails as a whole (500) and no
\* row is inserted; every row is inserted exactly once with a fresh unique
\* id when neither is the case.
C15_AmendedStep ==
  Handles({"POST /transactions/bulk-create"}) =>
    IF SomeRowForeign
    THEN response'.status = 400 /\ transactions' = transactions
    ELSE IF SomeCategoryMissing
    THEN response'.status = 500 /\ transactions' = transactions
    ELSE InsertedAll

C15_AllOrNothing == [][C15_AmendedStep]_vars

\* user A sent two equal rows in an own account: both are stored, under
\* two ids
C15_Witness ==
  /\ request.route = "POST /transactions/bulk-create"
  /\ request.userId = UserA
  /\ Len(request.values) = 2
  /\ request.values[1] = request.values[2]
  /\ response.status = 200
  /\ Cardinality({t \in transactions : ValuesOf(t) = request.values[1]}) = 2

----------------------------------------------------------------------------
(* Properties of the authentication check *)

\* a request of nobody is handled in this step
Unauthenticated == request = NoRequest /\ request' # NoRequest /\ request'.userId = NoUser

\* the answer is the fixed Unauthorized body, which carries no record
Answered401 ==
  /\ response'.status = 401
  /\ DOMAIN response' = {"status", "error"}
  /\ response'.error \in {"Unauthorized", "Unauthorized."}

\* the answer is the one of the validator, to a body it does not accept
Answered400 ==
  /\ response' = ValidationError
  /\ "json" \in DOMAIN request'
  /\ IsNull(request'.json.amount)

\* C13 as stated: on every endpoint a request without an authenticated user
\* id is answered 401 with the fixed Unauthorized body, which carries no
\* record, and leaves accounts, categories and transactions as they were.
C13_Step ==
  Unauthenticated =>
    (Answered401 /\ UNCHANGED <<accounts, categories, transactions>>)

C13_RejectedWith401AsClaimed == [][C13_Step]_vars

\* C13: on every endpoint a request without an authenticated user id is
\* rejected, with 401 Unauthorized or, when its body fails the validation
\* that runs before the handler, with 400; the answer carries no record and
\* accounts, categories and transactions stay as they were.
C13_AmendedStep ==
  Unauthenticated =>
    ((Answered401 \/ Answered400) /\ UNCHANGED <<accounts, categories, transactions>>)

C13_UnauthenticatedIsRejected == [][C13_AmendedStep]_vars

\* nobody asked to bulk-create a row in a store that holds the records of
\* user A as A has updated them: the answer is 401
C13_Witness ==
  /\ request.route = "POST /transactions/bulk-create"
  /\ request.userId = NoUser
  /\ Len(request.values) = 1
  /\ response.status = 401
  /\ \E t \in transactions : t.id = "ta" /\ t.amount = -1
  /\ \E c \in categories : c.id = "c1" /\ c.name = "Rent"

\* a successful create stores one account of the caller under the id it
\* returns, an id no stored account has
AccountCreated ==
  Handles({"POST /accounts"}) =>
    /\ response'.status = 200
    /\ response'.data.id \notin AccountIds(accounts)
    /\ accounts' = accounts \cup {[id |-> response'.data.id, name |-> request'.name,
                                   userId |-> request'.userId]}

\* a list names each stored account of the caller once and no other account
AccountsListed ==
  (Authenticated /\ request.route = "GET /accounts") =>
    /\ response.status = 200
    /\ \A a \in accounts :
         Cardinality({i \in 1..Len(response.data) : response.data[i].id = a.id}) =
           IF a.userId = request.userId THEN 1 ELSE 0

\* no two stored records of a table share an id
IdsDistinct ==
  /\ Cardinality(AccountIds(accounts)) = Cardinality(accounts)
  /\ Cardinality(CategoryIds(categories)) = Cardinality(categories)
  /\ Cardinality({t.id : t \in transactions}) = Cardinality(transactions)

\* C19: an account a user created is stored under the returned id for that
\* user, so that a list of that user that follows names it exactly once and
\* the list of another user does not name it; the ids of created records
\* are pairwise distinct.
C19_CreatedAccountIsListed == [](AccountsListed /\ IdsDistinct) /\ [][AccountCreated]_vars

\* user B lists the accounts after user A created two: the answer names
\* B's account only
C19_Witness ==
  /\ request.route = "GET /accounts"
  /\ request.userId = UserB
  /\ response.status = 200
  /\ \E a \in accounts : a.id = "n1" /\ a.userId = UserA
  /\ \E a \in accounts : a.id = "n2" /\ a.userId = UserA
  /\ Len(response.data) = 1
  /\ response.data[1].id = "b1"

----------------------------------------------------------------------------
(* Properties of the CSV import *)

\* what the cells of the import specifications say: the calendar day, in
\* days from 1970-01-01, and the amount in thousandths
DayWritten(cell) == IF cell = DateOnly THEN 19723 ELSE 19724
MilliWritten(cell) == IF cell = <<"2", "5", ".", "5", "0">> THEN 25500 ELSE -100000
IsDecimal(cell) == cell # Word("n/a")

\* the awaited create of a row has failed and the loop has ended in catch
ImportFails ==
  /\ importer.isImporting
  /\ request # NoRequest
  /\ response.status # 200
  /\ ~importer'.isImporting

\* every stored transaction carries the day and the amount of a row of the
\* CSV
NothingCorruptedStored ==
  \A t \in transactions :
    \E row \in ImportRows :
      /\ IsDecimal(row[2])
      /\ t.amount = MilliWritten(row[2])
      /\ Format(t.date) = DayWritten(row[1])

\* after the failure no row of the batch is stored
BatchRejected ==
  ImportFails => ~(\E t \in transactions' : t.id \in importer'.stored)

C17_PayloadsAsClaimed ==
  (importer.isImporting /\ importer.data # <<>> /\ importer.i = 0
     /\ importer.selectedColumns = StraightColumns) =>
    LET body == Tail(importer.data)
    IN /\ Len(importer.queue) = Len(body)
       /\ \A r \in 1..Len(body) :
            /\ IsDecimal(body[r][2]) =>
                 importer.queue[r].amount = Some(MilliWritten(body[r][2]))
            /\ ~IsNull(importer.queue[r].date)
            /\ Format(Val(importer.queue[r].date)) = DayWritten(body[r][1])
            /\ importer.queue[r].payee = body[r][3]

\* C18: while no import is running the progress of the import table is 100
\* if each of amount, date and payee is selected for some column and 0
\* otherwise, and an import starts only from a state with progress 100 and
\* no import running, that is with every required field selected.
AllRequiredSelected(imp) ==
  \A field \in {"amount", "date", "payee"} :
    \E c \in 1..Len(imp.selectedColumns) : imp.selectedColumns[c] = Some(field)

ProgressShown ==
  (~importer.isImporting /\ importer.data # <<>>) =>
    getProgress(importer) = (IF AllRequiredSelected(importer) THEN Rat(100, 1) ELSE Rat(0, 1))

ContinueStep ==
  (importer'.queue # importer.queue \/ (importer'.isImporting /\ ~importer.isImporting)) =>
    /\ ~importer.isImporting
    /\ getProgress(importer) = Rat(100, 1)
    /\ AllRequiredSelected(importer)

C18_ProgressGuardsContinue == []ProgressShown /\ [][ContinueStep]_vars

\* an import was started from a table whose columns select payee, amount
\* and date, after the user had changed the selects
C18_Witness ==
  /\ importer.isImporting
  /\ Len(importer.queue) = 2
  /\ importer.selectedColumns = <<Some("payee"), Some("amount"), Some("date")>>

----------------------------------------------------------------------------
(* Properties of the optimistic mutations *)

\* onError of m runs in this step
Erred(m) ==
  /\ m \in cache.mutations
  /\ m.phase = "failed"
  /\ [m EXCEPT !.phase = "erred"] \in cache'.mutations

\* onSettled of m runs in this step
Settled(m) ==
  /\ m \in cache.mutations
  /\ m.phase \in {"erred", "succeeded"}
  /\ \A o \in cache'.mutations : o.id # m.id

\* the rollback leaves the entry with exactly the snapshot of onMutate
RolledBack ==
  \A m \in cache.mutations :
    Erred(m) => getQueryData(cache'.queries, HookKey(m.hook)) = m.context

\* after onSettled the list query of the hook is invalidated
Invalidated ==
  \A m \in cache.mutations :
    Settled(m) =>
      \A k \in ListKeys : IsPrefix(HookKey(m.hook), k) => cache'.queries[k].isInvalidated

\* C20: when the request of an optimistic mutation fails, the cached list is
\* restored to exactly the snapshot taken in onMutate, and whether the
\* request fails or succeeds the list query is invalidated afterwards.
C20_RollbackAsClaimed == [][RolledBack /\ Invalidated]_vars

----------------------------------------------------------------------------
(* Properties of concurrent sessions *)

\* the handler answers the call of session s in this step
Applied(s) == sessions[s].pc = "sent" /\ sessions'[s].pc = "answered"

\* user A owns a category with this id
OwnedByA(id) == \E c \in categories : c.id = id /\ c.userId = UserA

\* what the step that answers the call of s does to the categories
AppliedAsClaimed(s) ==
  LET r == sessions[s]
      patch == r.route = "PATCH /categories/:id"
  IN /\ (patch /\ OwnedByA(r.id)) =>
          /\ sessions'[s].response.status = 200
          /\ [id |-> r.id, name |-> r.name, userId |-> UserA] \in categories'
     /\ (patch /\ ~OwnedByA(r.id)) =>
          /\ sessions'[s].response.status = 404
          /\ categories' = categories
     /\ \A c \in categories : c.id # r.id => c \in categories'
     /\ \A c \in categories' : \E o \in categories : o.id = c.id

\* C21: concurrent PATCH requests of two sessions of a user on one category
\* both succeed and the stored name is the one of the update applied last:
\* each update that is applied sets the name it carries, no step in between
\* changes it, no other category is changed, and a PATCH applied after the
\* DELETE of the category is answered 404 and creates nothing.
C21_Step ==
  /\ \A s \in Sessions : Applied(s) => AppliedAsClaimed(s)
  /\ (\A s \in Sessions : ~Applied(s)) => UNCHANGED categories

C21_LastWriteWins == [][C21_Step]_vars

\* both sessions have renamed c1 and hold their answers: Travel was applied
\* first, Rent last
C21_Witness ==
  /\ \A s \in Sessions :
       /\ sessions[s].pc = "answered"
       /\ sessions[s].route = "PATCH /categories/:id"
       /\ sessions[s].id = "c1"
       /\ sessions[s].response.status = 200
  /\ sessions[1].name = "Rent"
  /\ sessions[2].response.data.name = "Travel"
  /\ \E c \in categories : c.id = "c1" /\ c.name = "Rent"

----------------------------------------------------------------------------
(* Properties of the deletion of a category *)

\* DELETE /categories/:id deletes a category in this step
Deletes ==
  /\ request = NoRequest
  /\ request'.route = "DELETE /categories/:id"
  /\ response'.status = 200

\* the answers to the summary request of user A, before and after the step
SummaryBefore == SummaryData(transactions, accounts, categories, UserA, Null, Null, "", 0)
SummaryAfter == SummaryData(transactions', accounts', categories', UserA, Null, Null, "", 0)

\* the part of an answer that does not name categories
TotalsAndDays(d) ==
  [incomeAmount |-> d.incomeAmount, expensesAmount |-> d.expensesAmount,
   remainingAmount |-> d.remainingAmount, days |-> d.days]

\* the expenses that referenced the deleted category
DeletedExpenses ==
  {t \in transactions : t.amount < 0 /\ t.categoryId = Some(request'.id)}
DeletedName == (CHOOSE c \in categories : c.id = request'.id).name

\* the total of the expenses without a category after the step
UncategorizedTotal ==
  LET rows == {t \in transactions' : t.amount < 0 /\ IsNull(t.categoryId)}
  IN SumRows(rows, [t \in rows |-> -t.amount])

SameTotalsAndDays ==
  {TotalsAndDays(d) : d \in SummaryBefore} = {TotalsAndDays(d) : d \in SummaryAfter}

\* C22 as stated: after the deletion of a category the totals and the daily
\* series of the summary are as before, the breakdown counts the expenses
\* that referenced it under "Uncategorized", and the name of the deleted
\* category does not appear in the breakdown.
C22_Step ==
  (Deletes /\ DeletedExpenses # {}) =>
    /\ SameTotalsAndDays
    /\ \A d \in SummaryAfter :
         /\ \E i \in 1..Len(d.categories) :
              d.categories[i] = [name |-> "Uncategorized", value |-> UncategorizedTotal]
         /\ \A i \in 1..Len(d.categories) : d.categories[i].name # DeletedName

NameStillUsed ==
  \E c \in categories' :
    /\ c.name = DeletedName
    /\ \E t \in transactions' : t.amount < 0 /\ t.categoryId = Some(c.id)

\* C22: after the deletion of a category the totals and the daily series of
\* the summary are as before; the expenses that referenced it are counted
\* in the group "Uncategorized", which the breakdown lists unless four
\* groups at least as large take its place; the name of the deleted
\* category appears only if another category of that name has expenses.
C22_AmendedStep ==
  (Deletes /\ DeletedExpenses # {}) =>
    /\ SameTotalsAndDays
    /\ \A t \in DeletedExpenses : [t EXCEPT !.categoryId = Null] \in transactions'
    /\ \A d \in SummaryAfter :
         /\ \/ \E i \in 1..Len(d.categories) :
                 d.categories[i] = [name |-> "Uncategorized", value |-> UncategorizedTotal]
            \/ /\ Len(d.categories) = TopLimit
               /\ \A i \in 1..Len(d.categories) : d.categories[i].value >= UncategorizedTotal
         /\ (\E i \in 1..Len(d.categories) : d.categories[i].name = DeletedName) =>
              NameStillUsed

BulkDeleteSent ==
  /\ request = NoRequest
  /\ request' # NoRequest
  /\ request'.route \in {"DELETE /accounts/:id", "DELETE /accounts/bulk-delete"}
  /\ request'.id = "bulk-delete"
  /\ request'.userId # NoUser

\* C23: DELETE /accounts/bulk-delete is handled by the bulk-delete handler,
\* which deletes exactly the listed accounts of the caller with their
\* transactions and answers their ids; it is never handled by the /:id
\* handler with the id "bulk-delete".
C23_Step ==
  BulkDeleteSent =>
    LET listed == {a \in accounts : a.userId = request'.userId /\ a.id \in request'.ids}
    IN /\ request'.route = "DELETE /accounts/bulk-delete"
       /\ accounts' = accounts \ listed
       /\ transactions' = {t \in transactions : t.accountId \notin {a.id : a \in listed}}
       /\ response' = [status |-> 200, data |-> {[id |-> a.id] : a \in listed}]

C23_BulkDeleteAsClaimed == [][C23_Step]_vars

\* ------------------------------------------------------------------------
\* C24

\* the period totals are integers of either sign: the expenses are a sum of
\* negative amounts and the remaining balance may be negative
MaxChange == 5
ChangeValues == (0 - MaxChange)..MaxChange

InitChange ==
  /\ accounts = {}
  /\ categories = {}
  /\ transactions = {}
  /\ idCounter = 0
  /\ request \in [route : {"calculatePercentageChange"},
                  current : ChangeValues, previous : ChangeValues]
  /\ response = NoResponse
  /\ importer = NoImporter
  /\ cache = NoCache
  /\ sessions = NoSessions

Calculate ==
  /\ response = NoResponse
  /\ response' = [status |-> 200,
                  data |-> calculatePercentageChange(Some(request.current),
                                                     Some(request.previous))]
  /\ UNCHANGED <<accounts, categories, transactions, idCounter, request, client>>

NextChange == Calculate

SpecChange == InitChange /\ [][NextChange]_vars

\* the sign of a number: -1, 0 or 1
Sign(x) == IF x > 0 THEN 1 ELSE IF x < 0 THEN -1 ELSE 0
SignOfChange(r) ==
  IF r.kind = "num" THEN Sign(r.n)
  ELSE IF r.kind = "Infinity" THEN 1
  ELSE IF r.kind = "-Infinity" THEN -1
  ELSE 2

\* C24: for every previous value other than zero, negative ones included,
\* the percentage change is positive exactly when current > previous,
\* negative exactly when current < previous and zero exactly when they are
\* equal.
C24_SignAsClaimed ==
  (response.status = 200 /\ request.previous # 0) =>
    SignOfChange(response.data) = Sign(request.current - request.previous)

\* ------------------------------------------------------------------------
\* C25

DaysIncome ==
  LET days == response.data.days
  IN SumRows(DOMAIN days, [i \in DOMAIN days |-> days[i].income])
DaysExpenses ==
  LET days == response.data.days
  IN SumRows(DOMAIN days, [i \in DOMAIN days |-> days[i].expenses])

\* C25: in every summary the income values of the daily series sum to the
\* total income of the period and its expenses values sum to the total
\* absolute expenses of the period (a total over no transaction counts as 0).
C25_SeriesSumsToTotalsAsClaimed ==
  Summarised =>
    /\ DaysIncome = ToNumber(response.data.incomeAmount)
    /\ DaysExpenses = Abs(ToNumber(response.data.expensesAmount))

\* ------------------------------------------------------------------------
\* C26

\* The names specification: user A names new categories freely, moves two
\* expenses between the categories and no category, and asks for summaries.
BreakdownNames == {"Uncategorized", "Food"}
NamesCategoryIds == MaybeOf({CategoryIdPool[i] : i \in 1..MaxCategoryIds})
NamesValues ==
  [amount : {-1}, accountId : {"a1"}, date : {0}, categoryId : NamesCategoryIds,
   payee : {"Shop"}]

InitNames ==
  /\ accounts = SummaryAccounts
  /\ categories = {}
  /\ transactions =
       {[id |-> "ta", amount |-> -2, accountId |-> "a1", date |-> 0,
         categoryId |-> Null, payee |-> "Cafe"],
        [id |-> "tb", amount |-> -1, accountId |-> "a1", date |-> 0,
         categoryId |-> Null, payee |-> "Shop"]}
  /\ idCounter = 0
  /\ request = NoRequest
  /\ response = NoResponse
  /\ importer = NoImporter
  /\ cache = NoCache
  /\ sessions = NoSessions

NextNames ==
  \/ Return
  \/ \E name \in BreakdownNames : CreateCategory(UserA, name)
  \/ \E id \in {"ta", "tb"}, values \in NamesValues : PatchTransaction(UserA, id, values)
  \/ GetSummary(UserA, Null, Null, "", 0)

SpecNames == InitNames /\ [][NextNames]_vars

\* C26: the category breakdown never contains two entries with the same
\* name, also when the user owns a category named "Uncategorized" or two
\* categories of one name.
C26_NamesDistinctAsClaimed ==
  Summarised =>
    \A i, j \in 1..Len(response.data.categories) :
      response.data.categories[i].name = response.data.categories[j].name => i = j

\* ------------------------------------------------------------------------
\* C27

\* the columns whose select holds another value after the step
ChangedColumns ==
  {c \in DOMAIN importer.selectedColumns :
     importer.selectedColumns[c] # importer'.selectedColumns[c]}

SelectChanged ==
  /\ importer.data # <<>>
  /\ importer'.data = importer.data
  /\ importer'.selectedColumns # importer.selectedColumns

\* C27: after every change of a column select each field is selected for
\* at most one column; selecting a field for a column removes it from the
\* column that held it and changes no other column; selecting "skip" clears
\* only that column.
C27_Step ==
  SelectChanged =>
    LET old == importer.selectedColumns
        new == importer'.selectedColumns
    IN /\ \A f \in ImportFields \ {"skip"} :
            Cardinality({c \in DOMAIN new : new[c] = Some(f)}) <= 1
       /\ \A k \in ChangedColumns :
            ~IsNull(new[k]) =>
              \A c \in DOMAIN old \ {k} :
                new[c] = IF old[c] = new[k] THEN Null ELSE old[c]
       /\ (\A k \in ChangedColumns : IsNull(new[k])) => Cardinality(ChangedColumns) = 1

C27_OneColumnPerField == [][C27_Step]_vars

\* the selects of the three columns were changed and each holds a field of
\* its own
C27_Witness ==
  /\ importer.data # <<>>
  /\ importer.selectedColumns = <<Some("payee"), Some("date"), Some("amount")>>

\* ------------------------------------------------------------------------
\* C28

\* the awaited create of row i + 1 has succeeded and the loop goes on
RowCreated ==
  /\ importer.isImporting
  /\ request # NoRequest
  /\ request' = NoRequest
  /\ response.status = 200

\* the awaited create of the last row has succeeded
AllRowsCreated == RowCreated /\ importer.i + 1 = Len(importer.queue)

NotLess(p, q) == p.n * q.d >= q.n * p.d

\* C28: during an import of n rows the rows are created in the listed
\* order, the progress after the k-th create is k / n * 100 and never
\* decreases, isImporting is true until the import completes or fails and
\* false afterwards, and the uploaded data and the progress are cleared
\* only after all n rows have been created.
C28_Step ==
  importer.isImporting =>
    /\ RowCreated =>
         /\ request.values = ParsedBody(importer.queue[importer.i + 1])
         /\ ~AllRowsCreated =>
              /\ importer'.i = importer.i + 1
              /\ importer'.progress = Rat((importer.i + 1) * 100, Len(importer.queue))
    /\ importer'.isImporting => NotLess(importer'.progress, importer.progress)
    /\ importer'.isImporting <=> ~(AllRowsCreated \/ ImportFails)
    /\ (importer'.data = <<>> /\ importer.data # <<>>) => AllRowsCreated
    /\ (importer'.progress = Rat(0, 1) /\ importer.progress # Rat(0, 1)) => AllRowsCreated

C28_ImportAsClaimed == [][C28_Step]_vars

\* ------------------------------------------------------------------------
\* C29

\* every mutation has settled and the fetches of the list queries are over
AllSettled ==
  /\ cache.started >= 2
  /\ cache.mutations = {}
  /\ request = NoRequest
  /\ \A k \in ListKeys :
       ~IsNull(cache.queries[k].data) /\ ~cache.queries[k].isInvalidated

\* the ids of the entries cached under a key (GET /categories is kept as
\* the set of its rows, every other list in its order)
CachedIds(k) ==
  LET data == Val(cache.queries[k].data)
  IN IF k = <<"categories", UserA>> THEN {e.id : e \in data}
     ELSE {data[i].id : i \in 1..Len(data)}

\* the ids of the list the server holds for user A
ServerIds(family) ==
  IF family = "accounts" THEN {a.id : a \in {x \in accounts : x.userId = UserA}}
  ELSE IF family = "categories" THEN {c.id : c \in {x \in categories : x.userId = UserA}}
  ELSE {t.id : t \in {x \in transactions : \E a \in accounts :
                        a.id = x.accountId /\ a.userId = UserA}}

\* C29: once the optimistic mutations on a list have settled and the fetch
\* started by the invalidation is over, the cached list is the list of the
\* server: no "temp-id" entry remains and no entry of the server is missing.
C29_CacheEqualsServerAsClaimed ==
  AllSettled =>
    \A k \in QueryKeys :
      ~IsNull(cache.queries[k].data) => CachedIds(k) = ServerIds(k[1])

\* ------------------------------------------------------------------------
\* C30
(* route.ts: the origin callback of the cors middleware. env holds the    *)
(* two variables of process.env it reads, Null for one that is not set;   *)
(* the result is Null for undefined. The middleware calls it with the     *)
(* Origin header of the request, "" when the request has none.            *)

\* Boolean(value) of a string that may be undefined
Defined(value) == ~IsNull(value) /\ Val(value) # ""

\* the callback without filter(Boolean) and without the test of VERCEL_URL
originUnfiltered(requestOrigin, env) ==
  LET allowedOrigins ==
        {"http://localhost:3000"}
          \cup (IF IsNull(env.NEXT_PUBLIC_APP_URL) THEN {} ELSE {Val(env.NEXT_PUBLIC_APP_URL)})
          \cup {"https://" \o (IF IsNull(env.VERCEL_URL) THEN "undefined"
                               ELSE Val(env.VERCEL_URL))}
  IN IF requestOrigin \in allowedOrigins THEN Some(requestOrigin) ELSE Null

origin(requestOrigin, env) ==
  LET filtered == IF Defined(env.NEXT_PUBLIC_APP_URL) THEN {Val(env.NEXT_PUBLIC_APP_URL)}
                  ELSE {}
      vercelUrl == IF Defined(env.VERCEL_URL) THEN Some("https://" \o Val(env.VERCEL_URL))
                   ELSE Null
      allowedOrigins ==
        {"http://localhost:3000"} \cup filtered
          \cup (IF Defined(vercelUrl) THEN {Val(vercelUrl)} ELSE {})
  IN IF requestOrigin \in allowedOrigins THEN Some(requestOrigin) ELSE Null

\* The CORS specification: a preflight request with any of these Origin
\* headers, under every setting of the two environment variables.
CorsOrigins ==
  {"", "http://localhost:3000", "https://app.example.com", "https://findash.vercel.app",
   "https://evil.example.com", "https://", "https://undefined", "undefined", "null"}
CorsEnvs ==
  [NEXT_PUBLIC_APP_URL : MaybeOf({"", "https://app.example.com"}),
   VERCEL_URL : MaybeOf({"", "findash.vercel.app"})]

InitCors ==
  /\ accounts = {}
  /\ categories = {}
  /\ transactions = {}
  /\ idCounter = 0
  /\ request \in [route : {"OPTIONS /api/*"}, origin : CorsOrigins, env : CorsEnvs]
  /\ response = NoResponse
  /\ importer = NoImporter
  /\ cache = NoCache
  /\ sessions = NoSessions

\* the middleware answers the preflight request with the origin it allows
Preflight ==
  /\ response = NoResponse
  /\ response' = [status |-> 204, allowOrigin |-> origin(request.origin, request.env)]
  /\ UNCHANGED <<accounts, categories, transactions, idCounter, request, client>>

NextCors == Preflight

SpecCors == InitCors /\ [][NextCors]_vars

\* the origins the claim names for an environment
ClaimedOrigins(env) ==
  {"http://localhost:3000"}
    \cup {Val(env.NEXT_PUBLIC_APP_URL) : x \in {y \in {1} : Defined(env.NEXT_PUBLIC_APP_URL)}}
    \cup {"https://" \o Val(env.VERCEL_URL) : x \in {y \in {1} : Defined(env.VERCEL_URL)}}

\* C30: the callback returns the origin of the request exactly when it is
\* http://localhost:3000, the configured NEXT_PUBLIC_APP_URL or https://
\* followed by the configured VERCEL_URL, and undefined otherwise; with a
\* variable that is not set, an empty origin (or the text a missing value
\* would be written as) is never accepted.
C30_OriginAllowedIffConfigured ==
  response.status = 204 =>
    /\ response.allowOrigin =
         IF request.origin \in ClaimedOrigins(request.env) THEN Some(request.origin) ELSE Null
    /\ request.origin \in {"", "undefined", "null", "https://", "https://undefined"} =>
         IsNull(response.allowOrigin)

\* the origin of the deployment is allowed when only VERCEL_URL is set, and
\* so answered
C30_Witness ==
  /\ response.status = 204
  /\ IsNull(request.env.NEXT_PUBLIC_APP_URL)
  /\ request.env.VERCEL_URL = Some("findash.vercel.app")
  /\ request.origin = "https://findash.vercel.app"
  /\ response.allowOrigin = Some("https://findash.vercel.app")

====
